---- MODULE Spec2Model ----
(***************************************************************************)
(* Flats Rent Tracker: the page scraper (scraper.js and its revisions),    *)
(* the snapshot reconciler comparePrices and the run that ties them        *)
(* together.                                                               *)
(*                                                                         *)
(* Representation.  A JavaScript string the code parses is a sequence of   *)
(* one-character strings; null (and undefined) of a string-valued field is *)
(* the empty sequence, which the code treats the same way under `||`.  A   *)
(* JavaScript number is a tagged record: Num(n), NaN, or Null for a price  *)
(* that is null.  "Maybe" values (previousData, previousPlan, priceRange)  *)
(* are sequences of length 0 (null) or 1.                                  *)
(***************************************************************************)
EXTENDS Integers, Sequences, FiniteSets, TLC

VARIABLES
    currentData,    \* comparePrices: today's ObservationSnapshot
    previousData,   \* comparePrices: Maybe(last ObservationSnapshot of history)
    report,         \* comparePrices: Maybe(report object returned)
    cpc,            \* position of the reconciler: "idle" | "start" | "compared"
    revision,       \* the revision of scraper.js that runs
    queried,        \* what the structured-element query returns for the page
    bodyText,       \* Maybe(tokens of the body text), set when the code reads it
    unitsFound,     \* the units array of extractUnits / scrapePlan
    ran,            \* the strategies invoked so far, with the unit counts around each
    epc,            \* position of the extraction: "idle" | "structured" | "fallback" | "done"
    pc,             \* position of scrapeAllPlans
    browser,        \* the Chromium instance: "none" | "open" | "closed"
    results,        \* the results array of scrapeAllPlans
    calls,          \* the page operations performed so far, in order
    mpc,            \* position of main
    file,           \* data/history.json on disk
    history,        \* main: the history array in memory
    sendMode,       \* main: Maybe(the send mode read from the environment)
    reportHasUpdates, \* main: Maybe(result of hasUpdates(report))
    sendResult,     \* main: how the notification step ended
    outbox,         \* the e-mails handed to the delivery service, in order
    exitCode,       \* Maybe(exit code of the process)
    runs            \* the runs of main that share data/history.json

cmpVars == <<currentData, previousData, report, cpc>>
extVars == <<revision, queried, bodyText, unitsFound, ran, epc>>
runVars == <<pc, browser, results, calls>>
mainVars == <<mpc, file, history, sendMode, reportHasUpdates, sendResult, outbox, exitCode,
             runs>>
vars == <<currentData, previousData, report, cpc,
         revision, queried, bodyText, unitsFound, ran, epc,
         pc, browser, results, calls,
         mpc, file, history, sendMode, reportHasUpdates, sendResult, outbox, exitCode,
         runs>>

----------------------------------------------------------------------------
(* Bounds *)

MaxUnits == 2       \* units per plan in an enumerated snapshot
MaxElements == 2    \* elements the structured-element query returns
MaxTokens == 3      \* tokens of a page
MaxRuns == 2        \* runs of main that share the history file body

----------------------------------------------------------------------------
(* JavaScript values *)

Num(n) == [k |-> "num", n |-> n]
NaN == [k |-> "NaN", n |-> 0]
Null == [k |-> "null", n |-> 0]

IsNum(v) == v.k = "num"

\* ToNumber: null converts to 0, NaN stays NaN
ToNumber(v) == IF v.k = "null" THEN Num(0) ELSE v

\* a - b
Minus(a, b) ==
    LET x == ToNumber(a)
        y == ToNumber(b)
    IN  IF IsNum(x) /\ IsNum(y) THEN Num(x.n - y.n) ELSE NaN

\* a < b and a > b: false as soon as one side is NaN
Lt(a, b) == LET x == ToNumber(a) y == ToNumber(b) IN IsNum(x) /\ IsNum(y) /\ x.n < y.n
Gt(a, b) == Lt(b, a)

\* JSON.parse(JSON.stringify(v)) of a number: NaN is written as null
JsonNumber(v) == IF IsNum(v) THEN v ELSE Null

Unknown == <<"u", "n", "k", "n", "o", "w", "n">>

PlanB == "Plan B"
PlanCDen == "Plan C + Den"

\* s || 'unknown'
OrUnknown(s) == IF s = <<>> THEN Unknown ELSE s

----------------------------------------------------------------------------
(* Text: characters, parseInt, String.replace *)

Digits == {"0", "1", "2", "3", "4", "5", "6", "7", "8", "9"}
DigitVal == ("0" :> 0) @@ ("1" :> 1) @@ ("2" :> 2) @@ ("3" :> 3) @@ ("4" :> 4)
            @@ ("5" :> 5) @@ ("6" :> 6) @@ ("7" :> 7) @@ ("8" :> 8) @@ ("9" :> 9)
DigitChar == <<"0", "1", "2", "3", "4", "5", "6", "7", "8", "9">>
UpperCase == <<"A", "B", "C", "D", "E", "F", "G", "H", "I", "J", "K", "L", "M",
               "N", "O", "P", "Q", "R", "S", "T", "U", "V", "W", "X", "Y", "Z">>
LowerCase == <<"a", "b", "c", "d", "e", "f", "g", "h", "i", "j", "k", "l", "m",
               "n", "o", "p", "q", "r", "s", "t", "u", "v", "w", "x", "y", "z">>
Letters == {UpperCase[i] : i \in 1..26} \cup {LowerCase[i] : i \in 1..26}

\* c.toLowerCase()
lowerChar(c) ==
    IF \E i \in 1..26 : UpperCase[i] = c
    THEN LowerCase[CHOOSE i \in 1..26 : UpperCase[i] = c]
    ELSE c

lowerCase(s) == [i \in 1..Len(s) |-> lowerChar(s[i])]

\* s.includes(w)
includes(s, w) ==
    \E i \in 1..(Len(s) - Len(w) + 1) : SubSeq(s, i, i + Len(w) - 1) = w

\* the white-space characters: what \s matches and what parseInt and trim
\* skip.  After the blank and the four escapes come the line tabulation
\* (U+000B), the no-break space (U+00A0), U+FEFF and U+1680, written as
\* themselves; the characters the text of a module cannot hold are each one
\* character of a text, written as its code point: the spaces U+2000 to
\* U+200A, the line and paragraph separators, U+202F, U+205F and U+3000
Whitespace ==
    {" ", "\t", "\n", "\r", "\f", "", " ", "﻿", " ",
     "U+2000", "U+2001", "U+2002", "U+2003", "U+2004", "U+2005",
     "U+2006", "U+2007", "U+2008", "U+2009", "U+200A",
     "U+2028", "U+2029", "U+202F", "U+205F", "U+3000"}

IsDigit(c) == c \in Digits

\* text.replace(/[...]/g, ''): drop every character of the class
StripChars(s, class) ==
    LET keep(c) == c \notin class IN SelectSeq(s, keep)

\* the longest prefix of s made of characters of the class
RECURSIVE TakeWhile(_, _)
TakeWhile(s, class) ==
    IF s = <<>> \/ Head(s) \notin class THEN <<>>
    ELSE <<Head(s)>> \o TakeWhile(Tail(s), class)

RECURSIVE DropWhile(_, _)
DropWhile(s, class) ==
    IF s = <<>> \/ Head(s) \notin class THEN s
    ELSE DropWhile(Tail(s), class)

RECURSIVE DecimalValue(_, _)
DecimalValue(ds, acc) ==
    IF ds = <<>> THEN acc
    ELSE DecimalValue(Tail(ds), 10 * acc + DigitVal[Head(ds)])

\* parseInt(s, 10): leading white space, an optional sign, then the longest
\* run of digits; NaN when there is no digit
parseInt(s) ==
    LET t == DropWhile(s, Whitespace)
        neg == t # <<>> /\ Head(t) = "-"
        u == IF t # <<>> /\ Head(t) \in {"-", "+"} THEN Tail(t) ELSE t
        ds == TakeWhile(u, Digits)
    IN  IF ds = <<>> THEN NaN
        ELSE Num((IF neg THEN -1 ELSE 1) * DecimalValue(ds, 0))

\* the decimal digits of a natural number
RECURSIVE DigitsOf(_)
DigitsOf(n) ==
    IF n < 10 THEN <<DigitChar[n + 1]>>
    ELSE DigitsOf(n \div 10) \o <<DigitChar[(n % 10) + 1]>>

\* unitNumber.match(/^(\d)/): the leading digit, or null
floorFromUnit(unitNumber) ==
    IF unitNumber # <<>> /\ IsDigit(unitNumber[1]) THEN <<unitNumber[1]>> ELSE <<>>

----------------------------------------------------------------------------
(* Extraction strategies *)

MinRent == 1000
MaxRent == 20000
MaxGap == 500

\* price < 1000 || price > 20000: the unit is skipped
rejectedByBand(price) == Lt(price, Num(MinRent)) \/ Gt(price, Num(MaxRent))

\* price >= 1000 && price <= 20000: the unit is kept
insideBand(price) ==
    LET x == ToNumber(price)
    IN  IsNum(x) /\ x.n >= MinRent /\ x.n <= MaxRent

\* the availability texts the code writes
AvailableNow == <<"A", "v", "a", "i", "l", "a", "b", "l", "e", " ", "N", "o", "w">>
UnknownAvailability == <<"U", "n", "k", "n", "o", "w", "n">>
CallForDetails == <<"C", "a", "l", "l", " ", "f", "o", "r", " ", "D", "e", "t", "a", "i", "l", "s">>
NoLongerAvailable == <<"N", "o", " ", "l", "o", "n", "g", "e", "r", " ", "a", "v", "a", "i", "l", "a", "b", "l", "e">>
TxtFeb20 == <<"F", "e", "b", " ", "2", "0">>
TxtMar1 == <<"M", "a", "r", " ", "1">>

\* the words the availability patterns look for, in lower case
WordAvail == <<"a", "v", "a", "i", "l", ".">>
WordAvailable == <<"a", "v", "a", "i", "l", "a", "b", "l", "e">>
WordAvailableNow == <<"a", "v", "a", "i", "l", "a", "b", "l", "e", " ", "n", "o", "w">>
WordNow == <<"n", "o", "w">>
WordImmediate == <<"i", "m", "m", "e", "d", "i", "a", "t", "e">>

\* \w and [\/\-]
WordChars == Letters \cup Digits \cup {"_"}
DateSeparators == {"/", "-"}

\* the length of the longest run of characters of the class in s from
\* position p on
RECURSIVE runLength(_, _, _)
runLength(s, p, class) ==
    IF p > Len(s) \/ s[p] \notin class THEN 0
    ELSE 1 + runLength(s, p + 1, class)

\* one quantified class of a pattern, class{min,max}, matched greedily in s
\* at position p: the position after it; 0 when it does not match there or
\* p is 0 (what stands before it did not match).  No pattern below lets a
\* class be followed by a part that accepts a character of the class, so a
\* shorter run never matches where the longest does not.
endOf(s, p, class, min, max) ==
    IF p = 0 \/ runLength(s, p, class) < min THEN 0
    ELSE IF runLength(s, p, class) > max THEN p + max
    ELSE p + runLength(s, p, class)

\* a literal word of a pattern matched in s at position p: the position
\* after it, 0 when it does not match
wordEnd(s, p, w) ==
    IF p >= 1 /\ p + Len(w) - 1 <= Len(s) /\ SubSeq(s, p, p + Len(w) - 1) = w
    THEN p + Len(w)
    ELSE 0

\* /a\s*b/.test(s), on lower-cased text
apart(s, a, b) ==
    \E p \in 1..Len(s) :
        wordEnd(s, endOf(s, wordEnd(s, p, a), Whitespace, 0, Len(s)), b) > 0

\* \d{1,2}[\/\-]\d{1,2} at p: the position after the match, 0 for none
shortDateEnd(s, p) ==
    endOf(s, endOf(s, endOf(s, p, Digits, 1, 2), DateSeparators, 1, 1), Digits, 1, 2)

\* \d{1,2}[\/\-]\d{1,2}[\/\-]\d{2,4} at p
fullDateEnd(s, p) ==
    endOf(s, endOf(s, endOf(s, endOf(s, endOf(s, p, Digits, 1, 2),
                                        DateSeparators, 1, 1),
                              Digits, 1, 2),
                    DateSeparators, 1, 1),
          Digits, 2, 4)

\* \w+\s+\d{1,2},?\s+\d{4} at p
writtenDateEnd(s, p) ==
    endOf(s, endOf(s, endOf(s, endOf(s, endOf(s, endOf(s, p, WordChars, 1, Len(s)),
                                                  Whitespace, 1, Len(s)),
                                        Digits, 1, 2),
                              {","}, 0, 1),
                    Whitespace, 1, Len(s)),
          Digits, 4, 4)

\* [A-Z][a-z]+\s+\d{1,2} with the i flag at p, on lower-cased text
monthDayEnd(s, p) ==
    endOf(s, endOf(s, endOf(s, p, Letters, 2, Len(s)), Whitespace, 1, Len(s)), Digits, 1, 2)

\* the date pattern of a kind at p: the position after the match
dateEnd(kind, s, p) ==
    IF kind = "monthDay" THEN monthDayEnd(s, p)
    ELSE IF kind = "short" THEN shortDateEnd(s, p)
    ELSE fullDateEnd(s, p)

\* Avail\.\s* with the i flag at p, on lower-cased text
availEnd(s, p) == endOf(s, wordEnd(s, p, WordAvail), Whitespace, 0, Len(s))

\* the first position of a set of positions, 0 for the empty set
leftmost(ps) == IF ps = {} THEN 0 ELSE CHOOSE p \in ps : \A q \in ps : p <= q

\* the capture of /Avail\.\s*(date)/i for the match that starts at p, l
\* being the text in lower case: Maybe(text)
afterAvail(kind, text, l, p) ==
    IF dateEnd(kind, l, availEnd(l, p)) = 0 THEN <<>>
    ELSE <<SubSeq(text, availEnd(l, p), dateEnd(kind, l, availEnd(l, p)) - 1)>>

\* text.match(/Avail\.\s*(date)/i): the capture of the first match
dateAfterAvail(kind, text) ==
    afterAvail(kind, text, lowerCase(text),
               leftmost({p \in 1..Len(text) :
                            dateEnd(kind, lowerCase(text), availEnd(lowerCase(text), p)) > 0}))

\* availability of an article: the text element first ("now", else a date),
\* then the data-spaces-soonest attribute, else 'Unknown'
articleAvailability(a) ==
    IF a.avail = "now" THEN AvailableNow
    ELSE IF a.avail = "date" THEN TxtFeb20
    ELSE IF a.soonest THEN TxtMar1
    ELSE UnknownAvailability

unitRecord(unitNumber, floor, price, availability) ==
    [unitNumber |-> unitNumber, floor |-> floor, price |-> price,
     availability |-> availability]

\* one article[data-spaces-unit]: Maybe(unit)
articleUnit(a) ==
    IF a.unit = <<>> THEN <<>>
    ELSE IF ~a.hasPrice THEN <<>>
    ELSE LET price == parseInt(StripChars(a.priceText, {"$", ","}))
         IN  IF rejectedByBand(price) THEN <<>>
             ELSE <<unitRecord(a.unit, floorFromUnit(a.unit), price,
                               articleAvailability(a))>>

\* the structured-element strategy: every article in document order
RECURSIVE structuredUnits(_, _)
structuredUnits(articles, units) ==
    IF articles = <<>> THEN units
    ELSE structuredUnits(Tail(articles), units \o articleUnit(Head(articles)))

\* text tokens of the page body, in reading order and one space apart:
\*   "unit"     'Unit ' followed by the identifier text s
\*   "pricemo"  the amount text s followed by ' /mo'
\*   "price"    the amount text s alone
\*   "text"     the other text s, written out: it holds no '$' and no
\*              'Unit' followed by white space
\*   "gap"      n characters of filler, none of them a letter, a digit, a
\*              '$' or white space (rendered as asterisks)
Token(t, s, n) == [t |-> t, s |-> s, n |-> n]

tokenLen(tok) ==
    IF tok.t = "unit" THEN 5 + Len(tok.s)
    ELSE IF tok.t = "pricemo" THEN Len(tok.s) + 4
    ELSE IF tok.t = "price" THEN Len(tok.s)
    ELSE IF tok.t = "text" THEN Len(tok.s)
    ELSE tok.n

\* (\d{3}-\d{3}|\d{3,4}[A-Z]?) with the i flag, matched at the start of the
\* identifier text: the captured unit number, <<>> when it does not match
unitIdCapture(id) ==
    LET d == Len(TakeWhile(id, Digits))
    IN  IF /\ d = 3 /\ Len(id) >= 7 /\ id[4] = "-"
           /\ \A x \in 5..7 : IsDigit(id[x])
        THEN SubSeq(id, 1, 7)
        ELSE IF d < 3 THEN <<>>
        ELSE LET n == IF d >= 4 THEN 4 ELSE 3
             IN  IF Len(id) > n /\ id[n + 1] \in Letters
                 THEN SubSeq(id, 1, n + 1)
                 ELSE SubSeq(id, 1, n)

\* \$(\d{1,2},?\d{3}) directly followed by the /mo suffix: the captured
\* digits (with the comma), <<>> when the amount text has another shape
patternPrice(text) ==
    IF text = <<>> \/ Head(text) # "$" THEN <<>>
    ELSE LET r == Tail(text)
             plain == r = TakeWhile(r, Digits) /\ Len(r) \in {4, 5}
             comma == /\ Len(r) \in {5, 6}
                      /\ r[Len(r) - 3] = ","
                      /\ StripChars(r, {","}) = TakeWhile(StripChars(r, {","}), Digits)
                      /\ Len(StripChars(r, {","})) = Len(r) - 1
         IN  IF plain \/ comma THEN r ELSE <<>>

IsStart(tok) == tok.t = "unit" /\ unitIdCapture(tok.s) # <<>>
IsRent(tok) == tok.t = "pricemo" /\ patternPrice(tok.s) # <<>>

\* the amount the lazy gap reaches first: the nearest rent after token i
nearestRent(tokens, i) ==
    LET js == {j \in (i + 1)..Len(tokens) : IsRent(tokens[j])}
    IN  IF js = {} THEN 0 ELSE CHOOSE j \in js : \A m \in js : j <= m

RECURSIVE charsBetween(_, _, _)
charsBetween(tokens, i, j) ==
    IF i + 1 >= j THEN 0
    ELSE tokenLen(tokens[i + 1]) + 1 + charsBetween(tokens, i + 1, j)

\* the characters [\s\S]{0,500}? has to cover between the captured unit
\* number of token i and the '$' of token j
gapChars(tokens, i, j) ==
    (Len(tokens[i].s) - Len(unitIdCapture(tokens[i].s))) + 1 + charsBetween(tokens, i, j)

matchesFrom(tokens, i) ==
    /\ IsStart(tokens[i])
    /\ nearestRent(tokens, i) # 0
    /\ gapChars(tokens, i, nearestRent(tokens, i)) <= MaxGap

\* the characters of a token
render(tok) ==
    IF tok.t = "unit" THEN <<"U", "n", "i", "t", " ">> \o tok.s
    ELSE IF tok.t = "pricemo" THEN tok.s \o <<" ", "/", "m", "o">>
    ELSE IF tok.t = "gap" THEN [x \in 1..tok.n |-> "*"]
    ELSE tok.s

\* the text of a sequence of tokens, one blank between two tokens
RECURSIVE renderAll(_)
renderAll(tokens) ==
    IF tokens = <<>> THEN <<>>
    ELSE IF Len(tokens) = 1 THEN render(tokens[1])
    ELSE render(tokens[1]) \o <<" ">> \o renderAll(Tail(tokens))

\* match[2]: the text between the captured unit number of token i and the
\* '$' of token j
contextText(tokens, i, j) ==
    SubSeq(tokens[i].s, Len(unitIdCapture(tokens[i].s)) + 1, Len(tokens[i].s))
    \o <<" ">>
    \o (IF i + 1 >= j THEN <<>> ELSE renderAll(SubSeq(tokens, i + 1, j - 1)) \o <<" ">>)

\* m[1] for a match, the text d for none
orElse(m, d) == IF m = <<>> THEN d ELSE m[1]

\* availability of a pattern-scan unit: the newest revision reads it from
\* the text between the unit number and the amount ('Avail. Now' or
\* 'Available Now', else the date after 'Avail.'), the one before it writes
\* 'Call for Details'
scanAvailability(build, tokens, i, j) ==
    IF build # "articles" THEN CallForDetails
    ELSE IF \/ apart(lowerCase(contextText(tokens, i, j)), WordAvail, WordNow)
            \/ apart(lowerCase(contextText(tokens, i, j)), WordAvailable, WordNow)
    THEN AvailableNow
    ELSE orElse(dateAfterAvail("monthDay", contextText(tokens, i, j)),
                orElse(dateAfterAvail("short", contextText(tokens, i, j)),
                       CallForDetails))

\* the pattern scan: unitPattern.exec in a loop from token pos on
RECURSIVE patternScan(_, _, _, _)
patternScan(build, tokens, pos, units) ==
    LET starts == {i \in pos..Len(tokens) : matchesFrom(tokens, i)}
    IN  IF starts = {} THEN units
        ELSE LET i == CHOOSE x \in starts : \A y \in starts : x <= y
                 j == nearestRent(tokens, i)
                 unitNumber == unitIdCapture(tokens[i].s)
                 price == parseInt(StripChars(patternPrice(tokens[j].s), {","}))
                 have == \E x \in 1..Len(units) : units[x].unitNumber = unitNumber
                 found == IF insideBand(price) /\ ~have
                          THEN <<unitRecord(unitNumber, floorFromUnit(unitNumber), price,
                                            scanAvailability(build, tokens, i, j))>>
                          ELSE <<>>
             IN  patternScan(build, tokens, j + 1, units \o found)

\* bodyText.match(/\$[\d,]+/g): every amount text of the body
RECURSIVE priceMatches(_)
priceMatches(tokens) ==
    IF tokens = <<>> THEN <<>>
    ELSE LET tok == Head(tokens)
             run == IF tok.t \in {"price", "pricemo"} /\ tok.s # <<>> /\ Head(tok.s) = "$"
                    THEN TakeWhile(Tail(tok.s), Digits \cup {","})
                    ELSE <<>>
         IN  (IF run = <<>> THEN <<>> ELSE <<<<"$">> \o run>>)
             \o priceMatches(Tail(tokens))

\* [...new Set(xs)]: first occurrences, in order
RECURSIVE uniqueInOrder(_, _)
uniqueInOrder(xs, seen) ==
    IF xs = <<>> THEN <<>>
    ELSE IF Head(xs) \in seen THEN uniqueInOrder(Tail(xs), seen)
    ELSE <<Head(xs)>> \o uniqueInOrder(Tail(xs), seen \cup {Head(xs)})

\* p > 1000 && p < 20000
looksLikeRent(price) ==
    LET x == ToNumber(price)
    IN  IsNum(x) /\ x.n > MinRent /\ x.n < MaxRent

RECURSIVE insertSorted(_, _)
insertSorted(x, sorted) ==
    IF sorted = <<>> THEN <<x>>
    ELSE IF x.n < Head(sorted).n THEN <<x>> \o sorted
    ELSE <<Head(sorted)>> \o insertSorted(x, Tail(sorted))

\* .sort((a, b) => a - b) on numbers (no NaN passes the filter before it)
RECURSIVE sortAscending(_)
sortAscending(xs) ==
    IF xs = <<>> THEN <<>>
    ELSE insertSorted(xs[Len(xs)], sortAscending(SubSeq(xs, 1, Len(xs) - 1)))

\* validPrices without the final sort: the prices in page order
validPricesInPageOrder(tokens) ==
    LET texts == uniqueInOrder(priceMatches(tokens), {})
        nums == [i \in 1..Len(texts) |-> parseInt(StripChars(texts[i], {"$", ","}))]
    IN  SelectSeq(nums, looksLikeRent)

validPrices(tokens) ==
    LET texts == uniqueInOrder(priceMatches(tokens), {})
        nums == [i \in 1..Len(texts) |-> parseInt(StripChars(texts[i], {"$", ","}))]
    IN  sortAscending(SelectSeq(nums, looksLikeRent))

UnitLabel == <<"U", "n", "i", "t", " ">>

\* the price harvest: one placeholder unit per valid price
harvestUnits(tokens) ==
    LET ps == validPrices(tokens)
    IN  [i \in 1..Len(ps) |->
            unitRecord(UnitLabel \o DigitsOf(i), <<>>, ps[i], CallForDetails)]

----------------------------------------------------------------------------
(* Structured-element strategy of the two earlier revisions *)

\* containerText.match(/\$[\d,]+\s*\/\s*mo/i)[0] for an amount text followed
\* by ' /mo': <<>> when the amount text has another shape
cardPriceMatch(text) ==
    IF /\ text # <<>> /\ Head(text) = "$" /\ Len(text) >= 2
       /\ Tail(text) = TakeWhile(Tail(text), Digits \cup {","})
    THEN text \o <<" ", "/", "m", "o">>
    ELSE <<>>

\* the first token of a kind in a container's text, 0 when there is none
firstWhere(tokens, wanted) ==
    LET is == {i \in 1..Len(tokens) : tokens[i] \in wanted}
    IN  IF is = {} THEN 0 ELSE CHOOSE i \in is : \A j \in is : i <= j

tokensOf(tokens) == {tokens[i] : i \in 1..Len(tokens)}

IsCardRent(tok) == tok.t = "pricemo" /\ cardPriceMatch(tok.s) # <<>>

\* /Avail\.\s*Now|Available\s*Now|Immediate/i.test(containerText)
IsAvailNow(containerText) ==
    \/ apart(lowerCase(containerText), WordAvail, WordNow)
    \/ apart(lowerCase(containerText), WordAvailable, WordNow)
    \/ includes(lowerCase(containerText), WordImmediate)

\* availability of a unit card: 'Available Now', else the date after
\* 'Avail.', else 'Unknown'
cardAvailability(containerText) ==
    IF IsAvailNow(containerText) THEN AvailableNow
    ELSE orElse(dateAfterAvail("full", containerText), UnknownAvailability)

\* one unit card (a container's text as tokens): Maybe(unit)
cardUnit(tokens) ==
    LET u == firstWhere(tokens, {tok \in tokensOf(tokens) : IsStart(tok)})
        r == firstWhere(tokens, {tok \in tokensOf(tokens) : IsCardRent(tok)})
    IN  IF u = 0 THEN <<>>
        ELSE IF r = 0 THEN <<>>
        ELSE LET unitNumber == unitIdCapture(tokens[u].s)
                 price == parseInt(StripChars(cardPriceMatch(tokens[r].s),
                                              {"$", ",", "/", "m", "o", "M", "O"}))
             IN  IF rejectedByBand(price) THEN <<>>
                 ELSE <<unitRecord(unitNumber, floorFromUnit(unitNumber), price,
                                   cardAvailability(renderAll(tokens)))>>

RECURSIVE cardUnits(_, _)
cardUnits(containers, units) ==
    IF containers = <<>> THEN units
    ELSE cardUnits(Tail(containers), units \o cardUnit(Head(containers)))

HeaderWords ==
    {<<"u", "n", "i", "t">>, <<"a", "p", "a", "r", "t", "m", "e", "n", "t">>,
     <<"f", "l", "o", "o", "r">>, <<"p", "r", "i", "c", "e">>, <<"r", "e", "n", "t">>,
     <<"a", "v", "a", "i", "l", "a", "b", "l", "e">>}
HeaderMaxLen == 50

\* /unit|apartment|floor|price|rent|available/i.test(rowText) && rowText.length < 50
isHeaderRow(rowText) ==
    /\ \E w \in HeaderWords : includes(lowerCase(rowText), w)
    /\ Len(rowText) < HeaderMaxLen

\* the digits of a match that starts at a digit, with the optional letter
digitsAndLetter(s) ==
    LET ds == TakeWhile(s, Digits)
        rest == SubSeq(s, Len(ds) + 1, Len(s))
    IN  ds \o (IF rest # <<>> /\ Head(rest) \in Letters THEN <<Head(rest)>> ELSE <<>>)

\* rowText.match(/(?:Unit\s+)?([A-Z]?\d+[A-Z]?)/i)[1], <<>> when no match
RECURSIVE rowUnitNumber(_)
rowUnitNumber(s) ==
    IF s = <<>> THEN <<>>
    ELSE IF IsDigit(Head(s)) THEN digitsAndLetter(s)
    ELSE IF Head(s) \in Letters /\ Len(s) >= 2 /\ IsDigit(s[2])
         THEN <<Head(s)>> \o digitsAndLetter(Tail(s))
    ELSE rowUnitNumber(Tail(s))

\* rowText.match(/(?:Floor\s+)?(\d+)(?:st|nd|rd|th)?/i)[1]: the first run of digits
RECURSIVE rowFloor(_)
rowFloor(s) ==
    IF s = <<>> THEN <<>>
    ELSE IF IsDigit(Head(s)) THEN TakeWhile(s, Digits)
    ELSE rowFloor(Tail(s))

\* rowText.match(/\$[\d,]+/)[0], <<>> when no match
RECURSIVE rowPriceMatch(_)
rowPriceMatch(s) ==
    IF s = <<>> THEN <<>>
    ELSE IF Head(s) = "$" /\ TakeWhile(Tail(s), Digits \cup {","}) # <<>>
         THEN <<"$">> \o TakeWhile(Tail(s), Digits \cup {","})
    ELSE rowPriceMatch(Tail(s))

\* price && price > 1000 && price < 20000 (null, NaN and 0 are falsy)
rowPriceKept(price) ==
    /\ IsNum(price) /\ price.n # 0
    /\ price.n > MinRent /\ price.n < MaxRent

\* the date of a table row for the match that starts at p, the first
\* alternative of the pattern going before the second
rowDateAt(rowText, p) ==
    IF p = 0 THEN UnknownAvailability
    ELSE IF fullDateEnd(rowText, p) > 0 THEN SubSeq(rowText, p, fullDateEnd(rowText, p) - 1)
    ELSE SubSeq(rowText, p, writtenDateEnd(rowText, p) - 1)

\* availability of a table row: 'Available Now', else the first date the
\* row shows (1/25/2026 or January 25, 2026), else 'Unknown'
rowAvailability(rowText) ==
    IF \/ includes(lowerCase(rowText), WordAvailableNow)
       \/ includes(lowerCase(rowText), WordImmediate)
    THEN AvailableNow
    ELSE rowDateAt(rowText,
                   leftmost({p \in 1..Len(rowText) :
                                fullDateEnd(rowText, p) > 0 \/ writtenDateEnd(rowText, p) > 0}))

\* one table row: Maybe(unit)
rowUnit(rowText) ==
    IF isHeaderRow(rowText) THEN <<>>
    ELSE LET m == rowPriceMatch(rowText)
             price == IF m = <<>> THEN Null ELSE parseInt(StripChars(m, {"$", ","}))
         IN  IF rowPriceKept(price)
             THEN <<unitRecord(rowUnitNumber(rowText), rowFloor(rowText), price,
                               rowAvailability(rowText))>>
             ELSE <<>>

RECURSIVE rowUnits(_, _)
rowUnits(rows, units) ==
    IF rows = <<>> THEN units
    ELSE rowUnits(Tail(rows), units \o rowUnit(Head(rows)))

----------------------------------------------------------------------------
(* The strategy chain of each revision of scraper.js *)

\* "rows": unit rows, then the price harvest in scrapePlan
\* "cards": unit cards, then the pattern scan
\* "articles": article[data-spaces-unit] elements, then the pattern scan
Builds == {"rows", "cards", "articles"}

\* the first strategy of a revision
structuredOf(build, elements) ==
    IF build = "articles" THEN structuredUnits(elements, <<>>)
    ELSE IF build = "cards" THEN cardUnits(elements, <<>>)
    ELSE rowUnits(elements, <<>>)

\* the guard of a fallback, taken as always true
fallbackAlways(units) == TRUE

\* units.length === 0
fallbackNeeded(units) == Len(units) = 0

fallbackName(build) == IF build = "rows" THEN "harvest" ELSE "pattern"

\* the fallback of a revision, appending to the units found so far
fallbackOf(build, body, units) ==
    IF build = "rows" THEN units \o harvestUnits(body)
    ELSE patternScan(build, body, 1, units)

\* the units scrapePlan ends up with for a loaded page
scrapedUnits(build, elements, body) ==
    LET first == structuredOf(build, elements)
    IN  IF fallbackNeeded(first) THEN fallbackOf(build, body, first) ELSE first

----------------------------------------------------------------------------
(* Snapshot reconciler *)

\* the key with the price made part of the identity
unitKeyWithPrice(u) ==
    OrUnknown(u.unitNumber) \o <<"-">> \o OrUnknown(u.floor) \o <<"-", ToString(u.price.n)>>

\* `${unit.unitNumber || 'unknown'}-${unit.floor || 'unknown'}`
unitKey(u) == OrUnknown(u.unitNumber) \o <<"-">> \o OrUnknown(u.floor)

\* previousPlans.get(name): Map.set overwrites, so the last plan of that name
previousPlanOf(name, prevData) ==
    IF prevData = <<>> THEN <<>>
    ELSE LET plans == prevData[1].plans
             idx == {i \in 1..Len(plans) : plans[i].name = name}
         IN  IF idx = {} THEN <<>>
             ELSE <<plans[CHOOSE i \in idx : \A j \in idx : j <= i]>>

\* previousUnits.get(key): the last previous unit with that key, as a Maybe
previousUnitOf(key, prevPlan) ==
    IF prevPlan = <<>> THEN <<>>
    ELSE LET us == prevPlan[1].units
             idx == {i \in 1..Len(us) : unitKey(us[i]) = key}
         IN  IF idx = {} THEN <<>>
             ELSE <<us[CHOOSE i \in idx : \A j \in idx : j <= i]>>

\* statusOf with an explicit test for zero in place of the final else
statusOfZeroTested(difference) ==
    IF Lt(difference, Num(0)) THEN "decreased"
    ELSE IF Gt(difference, Num(0)) THEN "increased"
    ELSE IF difference = Num(0) THEN "unchanged"
    ELSE "unknown"

\* the status of a matched unit from the sign of the difference
statusOf(difference) ==
    IF Lt(difference, Num(0)) THEN "decreased"
    ELSE IF Gt(difference, Num(0)) THEN "increased"
    ELSE "unchanged"

\* the record pushed for one current unit
currentRecord(currentUnit, prevPlan) ==
    LET previousUnit == previousUnitOf(unitKey(currentUnit), prevPlan)
        matched == previousUnit # <<>>
        previousPrice == IF matched THEN previousUnit[1].price ELSE Null
        difference == IF matched THEN Minus(currentUnit.price, previousPrice)
                      ELSE Num(0)
    IN  [unitNumber |-> currentUnit.unitNumber,
         floor |-> currentUnit.floor,
         currentPrice |-> currentUnit.price,
         previousPrice |-> previousPrice,
         difference |-> difference,
         status |-> IF matched THEN statusOf(difference) ELSE "new",
         availability |-> currentUnit.availability]

\* removedRecord with the status of a unit that is still listed
removedRecordAsUnchanged(prevUnit) ==
    [unitNumber |-> prevUnit.unitNumber,
     floor |-> prevUnit.floor,
     currentPrice |-> Null,
     previousPrice |-> prevUnit.price,
     difference |-> Num(0),
     status |-> "unchanged",
     availability |-> NoLongerAvailable]

\* the record pushed for a previous unit that is gone
removedRecord(prevUnit) ==
    [unitNumber |-> prevUnit.unitNumber,
     floor |-> prevUnit.floor,
     currentPrice |-> Null,
     previousPrice |-> prevUnit.price,
     difference |-> Num(0),
     status |-> "removed",
     availability |-> NoLongerAvailable]

\* the previous units whose key no current unit has, in previous order
removedUnits(currentPlan, prevPlan) ==
    IF prevPlan = <<>> THEN <<>>
    ELSE LET currentUnitKeys ==
                 {unitKey(currentPlan.units[i]) : i \in 1..Len(currentPlan.units)}
             gone(u) == unitKey(u) \notin currentUnitKeys
         IN  SelectSeq(prevPlan[1].units, gone)

\* planReport with the removed records put before those of the current units
planReportRemovedFirst(currentPlan, prevData) ==
    LET prevPlan == previousPlanOf(currentPlan.name, prevData)
        gone == removedUnits(currentPlan, prevPlan)
        unitChanges ==
            [i \in 1..Len(gone) |-> removedRecord(gone[i])]
            \o [i \in 1..Len(currentPlan.units) |->
                   currentRecord(currentPlan.units[i], prevPlan)]
    IN  [planName |-> currentPlan.name,
         url |-> currentPlan.url,
         totalUnits |-> currentPlan.totalUnits,
         priceRange |-> currentPlan.priceRange,
         units |-> unitChanges]

planReport(currentPlan, prevData) ==
    LET prevPlan == previousPlanOf(currentPlan.name, prevData)
        gone == removedUnits(currentPlan, prevPlan)
        unitChanges ==
            [i \in 1..Len(currentPlan.units) |->
                currentRecord(currentPlan.units[i], prevPlan)]
            \o [i \in 1..Len(gone) |-> removedRecord(gone[i])]
    IN  [planName |-> currentPlan.name,
         url |-> currentPlan.url,
         totalUnits |-> currentPlan.totalUnits,
         priceRange |-> currentPlan.priceRange,
         units |-> unitChanges]

\* comparePrices that also reports the plans found only in the previous
\* snapshot, every unit of theirs as removed (the plan-level tracker did so)
comparePricesWithGonePlans(curData, prevData) ==
    LET names == {curData.plans[i].name : i \in 1..Len(curData.plans)}
        isGone(plan) == plan.name \notin names
        gonePlans == IF prevData = <<>> THEN <<>> ELSE SelectSeq(prevData[1].plans, isGone)
    IN  [date |-> curData.date,
         plans |-> [i \in 1..Len(curData.plans) |-> planReport(curData.plans[i], prevData)]
                   \o [i \in 1..Len(gonePlans) |->
                          [planName |-> gonePlans[i].name,
                           url |-> gonePlans[i].url,
                           totalUnits |-> 0,
                           priceRange |-> <<>>,
                           units |-> [k \in 1..Len(gonePlans[i].units) |->
                                         removedRecord(gonePlans[i].units[k])]]]]

comparePrices(curData, prevData) ==
    [date |-> curData.date,
     plans |-> [i \in 1..Len(curData.plans) |-> planReport(curData.plans[i], prevData)]]

----------------------------------------------------------------------------
(* Inputs of the reconciler *)

Unit201 == <<"2", "0", "1">>
Unit109 == <<"1", "0", "9">>
UnitNumbers == {Unit201, Unit109}

PlanNames == {PlanB, PlanCDen}

PriceValues == {Num(4900), Num(5000)}

\* the floor is the leading digit of the unit number (all enumerated unit
\* numbers start with a digit)
floorOf(unitNumber) == <<unitNumber[1]>>

\* a unit as the scraper holds it in memory: a structured-element unit whose
\* price text has no digits carries NaN
CurrentUnits ==
    {[unitNumber |-> n, floor |-> floorOf(n), price |-> p, availability |-> AvailableNow] :
        n \in UnitNumbers, p \in PriceValues \cup {NaN}}

\* the same unit read back from history.json: NaN was written as null
jsonUnit(u) == [u EXCEPT !.price = JsonNumber(u.price)]

SeqsUpTo(S, n) == UNION {[1..m -> S] : m \in 0..n}

minPrice(units) ==
    IF \E i \in 1..Len(units) : ~IsNum(units[i].price) THEN NaN
    ELSE Num(CHOOSE m \in {units[i].price.n : i \in 1..Len(units)} :
                \A i \in 1..Len(units) : m <= units[i].price.n)

maxPrice(units) ==
    IF \E i \in 1..Len(units) : ~IsNum(units[i].price) THEN NaN
    ELSE Num(CHOOSE m \in {units[i].price.n : i \in 1..Len(units)} :
                \A i \in 1..Len(units) : m >= units[i].price.n)

\* the tracked pages
FLOOR_PLANS ==
    <<[name |-> PlanB, url |-> "detail=162036"],
      [name |-> PlanCDen, url |-> "detail=162039"]>>

\* the object scrapePlan returns when the catch block ran, marked a success
failedSnapshotAsSuccess(plan, message) ==
    [name |-> plan.name,
     url |-> plan.url,
     units |-> <<>>,
     totalUnits |-> 0,
     priceRange |-> <<>>,
     success |-> TRUE,
     error |-> ""]

\* the object scrapePlan returns from its catch block
failedSnapshot(plan, message) ==
    [name |-> plan.name,
     url |-> plan.url,
     units |-> <<>>,
     totalUnits |-> 0,
     priceRange |-> <<>>,
     success |-> FALSE,
     error |-> message]

\* the object scrapePlan returns on success
planSnapshot(name, url, units) ==
    [name |-> name,
     url |-> url,
     units |-> units,
     totalUnits |-> Len(units),
     priceRange |-> IF Len(units) > 0
                    THEN <<[min |-> minPrice(units), max |-> maxPrice(units)]>>
                    ELSE <<>>,
     success |-> TRUE,
     error |-> ""]

jsonPlan(p) ==
    [p EXCEPT !.units = [i \in 1..Len(p.units) |-> jsonUnit(p.units[i])],
              !.priceRange = IF p.priceRange = <<>> THEN <<>>
                             ELSE <<[min |-> JsonNumber(p.priceRange[1].min),
                                     max |-> JsonNumber(p.priceRange[1].max)]>>]

\* JSON.parse(JSON.stringify(snapshot))
jsonSnapshot(s) == [s EXCEPT !.plans = [i \in 1..Len(s.plans) |-> jsonPlan(s.plans[i])]]

----------------------------------------------------------------------------
(* Inputs of the extraction: page content *)

Unit350 == <<"3", "5", "0", "-", "2", "2", "7">>
Unit20 == <<"2", "0">>

Txt5411 == <<"$", "5", ",", "4", "1", "1">>
Txt5411Plain == <<"$", "5", "4", "1", "1">>
Txt4900 == <<"$", "4", ",", "9", "0", "0">>
Txt999 == <<"$", "9", "9", "9">>
Txt20001 == <<"$", "2", "0", ",", "0", "0", "1">>
TxtCall == <<"C", "a", "l", "l">>
TxtCommas == <<"$", ",">>
\* an amount on a line of its own, a line feed and a no-break space before it
TxtLines4900 == <<"\n", " ", "$", "4", ",", "9", "0", "0", "\n">>

Article(unit, hasPrice, priceText, avail, soonest) ==
    [unit |-> unit, hasPrice |-> hasPrice, priceText |-> priceText,
     avail |-> avail, soonest |-> soonest]

\* article[data-spaces-unit] elements: the unit attribute, the
\* .spaces-unit-price text, the availability text and attribute
Articles ==
    {Article(u, TRUE, t, "now", FALSE) :
        u \in {Unit201, Unit350}, t \in {Txt5411, Txt4900, TxtCall}}
    \cup {Article(Unit201, TRUE, Txt999, "now", FALSE),
          Article(Unit201, TRUE, Txt20001, "date", FALSE),
          Article(<<>>, TRUE, Txt5411, "none", TRUE),
          Article(Unit109, FALSE, <<>>, "none", FALSE),
          Article(Unit109, TRUE, Txt5411, "none", TRUE),
          Article(Unit109, TRUE, TxtLines4900, "other", FALSE)}

TokUnit201 == Token("unit", Unit201, 0)
TokUnit350 == Token("unit", Unit350, 0)
TokUnit20 == Token("unit", Unit20, 0)
TokRent5411 == Token("pricemo", Txt5411, 0)
TokRent4900 == Token("pricemo", Txt4900, 0)
TokRent999 == Token("pricemo", Txt999, 0)
TokRent20001 == Token("pricemo", Txt20001, 0)
TokRentCommas == Token("pricemo", TxtCommas, 0)
TokPrice5411 == Token("price", Txt5411, 0)
TokPrice5411Plain == Token("price", Txt5411Plain, 0)
TokAvailNow == Token("text", <<"A", "v", "a", "i", "l", ".", " ", "N", "o", "w">>, 0)
TokAvailFeb20 == Token("text", <<"A", "v", "a", "i", "l", ".", "\n", " ", "F", "e", "b", " ", "2", "0">>, 0)
TokAvailDate == Token("text", <<"A", "v", "a", "i", "l", ".", " ", "1", "/", "2", "5", "/", "2", "0", "2", "6">>, 0)
TokImmediate == Token("text", <<"I", "m", "m", "e", "d", "i", "a", "t", "e">>, 0)
TokGap600 == Token("gap", <<>>, 600)

\* the tokens a page body is made of
Tokens ==
    {TokUnit201, TokUnit350, TokRent5411, TokRent4900, TokRent20001,
     TokPrice5411Plain, TokAvailNow, TokAvailFeb20, TokGap600}

Bodies == SeqsUpTo(Tokens, MaxTokens)

\* unit cards: the text of each container, as tokens
Cards ==
    {<<TokUnit201, TokRent5411>>, <<TokUnit201, TokAvailNow, TokRent4900>>,
     <<TokUnit350, TokRent5411>>, <<TokUnit201, TokRent999>>,
     <<TokRent5411>>, <<TokUnit20, TokRent5411>>, <<TokUnit201, TokPrice5411>>,
     <<TokUnit350, TokRentCommas>>, <<TokUnit350, TokImmediate, TokRent5411>>,
     <<TokUnit201, TokAvailDate, TokRent4900>>}

Spaces(n) == [i \in 1..n |-> " "]
TxtUnit == <<"U", "n", "i", "t", " ">>
TxtNow == <<" ", "A", "v", "a", "i", "l", "a", "b", "l", "e", " ", "N", "o", "w">>
Txt1000 == <<"$", "1", ",", "0", "0", "0">>
Txt20000 == <<"$", "2", "0", ",", "0", "0", "0">>
TxtImmediate == <<" ", "I", "m", "m", "e", "d", "i", "a", "t", "e">>
TxtDate == <<" ", "1", "/", "2", "5", "/", "2", "0", "2", "6">>
TxtWrittenDate == <<" ", "J", "a", "n", "u", "a", "r", "y", "U+2003", "2", "5", ",", " ", "2", "0", "2", "6">>
UnitA12 == <<"A", "1", "2", " ", "3", "r", "d">>

\* table rows: the text of each row
Rows ==
    {Unit201 \o <<" ">> \o Txt5411,
     Unit109 \o <<" ">> \o Txt4900,
     Unit201 \o <<" ">> \o Txt4900,
     TxtUnit \o Unit201 \o <<" ">> \o Txt5411,
     TxtUnit \o Unit201 \o Spaces(40) \o Txt5411 \o TxtNow,
     UnitA12 \o <<" ">> \o Txt5411,
     Txt5411,
     Unit201 \o <<" ">> \o Txt1000,
     Unit201 \o <<" ">> \o Txt20000,
     Unit201 \o <<" ">> \o TxtCommas,
     Unit109 \o <<" ">> \o Txt5411 \o TxtImmediate,
     Unit201 \o <<" ">> \o Txt4900 \o TxtDate,
     Unit109 \o <<" ">> \o Txt4900 \o TxtWrittenDate}

ElementsOf(b) ==
    IF b = "articles" THEN Articles
    ELSE IF b = "cards" THEN Cards
    ELSE Rows

----------------------------------------------------------------------------
(* Specification of the extraction: one loaded page goes through the       *)
(* strategy chain of the revision that runs, scrapePlan builds the plan    *)
(* snapshot, and the snapshot is reconciled against itself.                *)

ExtractionIdle ==
    /\ revision = "articles"
    /\ queried = <<>>
    /\ bodyText = <<>>
    /\ unitsFound = <<>>
    /\ ran = <<>>
    /\ epc = "idle"

NoSnapshot == [date |-> 0, plans |-> <<>>]

ScraperIdle ==
    /\ pc = "idle"
    /\ browser = "none"
    /\ results = <<>>
    /\ calls = <<>>

ReconcilerIdle ==
    /\ currentData = NoSnapshot
    /\ previousData = <<>>
    /\ report = <<>>
    /\ cpc = "idle"

\* data/history.json: "missing" (no such file), "json" (an array of
\* snapshots), "unreadable" (readFile fails otherwise), "corrupt" (the
\* content is not JSON text), "empty" (no content: writeFile has opened the
\* file and not written yet)
HistoryFile(state, entries) == [state |-> state, entries |-> entries]
NoFile == HistoryFile("missing", <<>>)

\* the runs of main that share the history file, each before its start
Runs == 1..MaxRuns
IdleRun == [pc |-> "idle", data |-> <<>>, history |-> <<>>, report |-> <<>>, exit |-> <<>>]
NoRuns == [r \in Runs |-> IdleRun]

MainIdle ==
    /\ runs = NoRuns
    /\ mpc = "idle"
    /\ file = NoFile
    /\ history = <<>>
    /\ sendMode = <<>>
    /\ reportHasUpdates = <<>>
    /\ sendResult = "none"
    /\ outbox = <<>>
    /\ exitCode = <<>>

InitExtract ==
    /\ revision \in Builds
    /\ queried \in SeqsUpTo(ElementsOf(revision), MaxElements)
    /\ bodyText = <<>>
    /\ unitsFound = <<>>
    /\ ran = <<>>
    /\ epc = "structured"
    /\ ReconcilerIdle
    /\ ScraperIdle
    /\ MainIdle

Invocation(name, before, after) == [strategy |-> name, before |-> before, after |-> after]

\* the first strategy of extractUnits
Structured ==
    /\ epc = "structured"
    /\ unitsFound' = structuredOf(revision, queried)
    /\ ran' = Append(ran, Invocation("structured", Len(unitsFound), Len(unitsFound')))
    /\ epc' = "fallback"
    /\ UNCHANGED <<revision, queried, bodyText>>
    /\ UNCHANGED cmpVars
    /\ UNCHANGED runVars
    /\ UNCHANGED mainVars

\* the fallback runs on the body text, then scrapePlan returns the snapshot
Fallback ==
    /\ epc = "fallback"
    /\ fallbackNeeded(unitsFound)
    /\ \E b \in Bodies :
          /\ bodyText' = <<b>>
          /\ unitsFound' = fallbackOf(revision, b, unitsFound)
    /\ ran' = Append(ran, Invocation(fallbackName(revision), Len(unitsFound), Len(unitsFound')))
    /\ currentData' = [date |-> 1, plans |-> <<planSnapshot(PlanB, FLOOR_PLANS[1].url, unitsFound')>>]
    /\ epc' = "done"
    /\ UNCHANGED <<revision, queried, previousData, report, cpc>>
    /\ UNCHANGED runVars
    /\ UNCHANGED mainVars

\* the guard of the fallback fails, scrapePlan returns the snapshot
NoFallback ==
    /\ epc = "fallback"
    /\ ~fallbackNeeded(unitsFound)
    /\ currentData' = [date |-> 1, plans |-> <<planSnapshot(PlanB, FLOOR_PLANS[1].url, unitsFound)>>]
    /\ epc' = "done"
    /\ UNCHANGED <<revision, queried, bodyText, unitsFound, ran, previousData, report, cpc>>
    /\ UNCHANGED runVars
    /\ UNCHANGED mainVars

\* comparePrices(S, S) on the snapshot just produced
SelfCompare ==
    /\ epc = "done"
    /\ cpc = "idle"
    /\ previousData' = <<currentData>>
    /\ report' = <<comparePrices(currentData, <<currentData>>)>>
    /\ cpc' = "compared"
    /\ UNCHANGED currentData
    /\ UNCHANGED extVars
    /\ UNCHANGED runVars
    /\ UNCHANGED mainVars

NextExtract == Structured \/ Fallback \/ NoFallback \/ SelfCompare

SpecExtract == InitExtract /\ [][NextExtract]_vars

----------------------------------------------------------------------------
(* Specification of a run: scrapeAllPlans launches the browser, scrapes    *)
(* the tracked pages one after the other and closes the browser.           *)

Page(els, toks, heading) == [elements |-> els, body |-> toks, heading |-> heading]

\* pages a tracked URL may show: the structured elements, the body text and
\* the text of the first heading that looks like a plan name (<<>>: none)
PagesOf(b) ==
    IF b = "articles"
    THEN {Page(<<Article(Unit201, TRUE, Txt5411, "now", FALSE),
                 Article(Unit350, TRUE, Txt4900, "date", FALSE)>>, <<>>, <<>>),
          Page(<<>>, <<TokUnit350, TokAvailFeb20, TokRent5411>>, <<"2 Bed Plan">>),
          Page(<<Article(Unit201, TRUE, TxtCall, "now", FALSE)>>, <<TokPrice5411Plain>>, <<>>),
          Page(<<>>, <<TokPrice5411Plain>>, <<>>)}
    ELSE IF b = "cards"
    THEN {Page(<<<<TokUnit201, TokAvailDate, TokRent5411>>, <<TokUnit350, TokAvailNow, TokRent4900>>>>,
               <<>>, <<>>),
          Page(<<>>, <<TokUnit350, TokRent5411>>, <<"2 Bed Plan">>),
          Page(<<>>, <<TokPrice5411Plain>>, <<>>)}
    ELSE {Page(<<Unit201 \o <<" ">> \o Txt5411 \o TxtDate,
                 Unit109 \o <<" ">> \o Txt4900 \o TxtImmediate>>, <<>>, <<>>),
          Page(<<>>, <<TokPrice5411Plain, TokRent4900>>, <<"2 Bed Plan">>),
          Page(<<>>, <<TokRent5411>>, <<"2 Bed Plan">>),
          Page(<<>>, <<TokRent4900>>, <<"2 Bed Plan">>),
          Page(<<>>, <<>>, <<>>)}

\* messages of a failed page.goto
LoadErrors == {"Timeout 60000ms exceeded", "net::ERR_CONNECTION_REFUSED"}

\* messages of a page.waitForTimeout that rejects after page.goto resolved
WaitErrors == {"Target page, context or browser has been closed"}

\* what browser.close leaves of the Chromium instance when it rejects
CloseFailureStates == {"open", "closed"}

Call(op, plan, detail) == [op |-> op, plan |-> plan, detail |-> detail]

\* scrapePlan on a page that loaded
loadedSnapshot(b, plan, page) ==
    planSnapshot(IF page.heading = <<>> THEN plan.name ELSE page.heading[1],
                 plan.url,
                 scrapedUnits(b, page.elements, page.body))

\* messages of a page call that rejects after the page has loaded
ExtractionErrors == {"Target closed"}

\* extractionErrorSnapshot with the error reaching the catch block of
\* scrapePlan in every revision
extractionErrorAsFailure(b, plan, page, message) == failedSnapshot(plan, message)

\* scrapePlan on a page that loaded when the element query of extractUnits
\* rejects: the catch block of extractUnits logs the error and returns the
\* empty list; the revision with table rows has no such block, there the
\* error reaches the catch block of scrapePlan
extractionErrorSnapshot(b, plan, page, message) ==
    IF b = "rows" THEN failedSnapshot(plan, message)
    ELSE planSnapshot(IF page.heading = <<>> THEN plan.name ELSE page.heading[1],
                      plan.url, <<>>)

\* the page without its k-th element: reading the element threw, the catch
\* block inside the loop goes on with the next element
withoutElement(page, k) ==
    [page EXCEPT !.elements = SubSeq(page.elements, 1, k - 1)
                              \o SubSeq(page.elements, k + 1, Len(page.elements))]

\* the object scrapeAllPlans returns
scraperResult(day, plans) == [date |-> day, plans |-> plans]

\* an entry an earlier run stored: both tracked pages showed page p
storedRun(b, day, p) ==
    jsonSnapshot(scraperResult(day, <<loadedSnapshot(b, FLOOR_PLANS[1], p),
                                      loadedSnapshot(b, FLOOR_PLANS[2], p)>>))

\* the history file a run may find
FilesOf(b) ==
    {NoFile, HistoryFile("unreadable", <<>>), HistoryFile("corrupt", <<>>),
     HistoryFile("json", <<>>)}
    \cup {HistoryFile("json", <<storedRun(b, 0, p)>>) : p \in PagesOf(b)}
    \cup {HistoryFile("json", <<storedRun(b, -1, p), storedRun(b, 0, p)>>) : p \in PagesOf(b)}

Init ==
    /\ revision \in Builds
    /\ queried = <<>>
    /\ bodyText = <<>>
    /\ unitsFound = <<>>
    /\ ran = <<>>
    /\ epc = "idle"
    /\ ReconcilerIdle
    /\ pc = "start"
    /\ browser = "none"
    /\ results = <<>>
    /\ calls = <<>>
    /\ runs = NoRuns
    /\ mpc = "scrape"
    /\ file \in FilesOf(revision)
    /\ history = <<>>
    /\ sendMode = <<>>
    /\ reportHasUpdates = <<>>
    /\ sendResult = "none"
    /\ outbox = <<>>
    /\ exitCode = <<>>

\* chromium.launch resolves
Launch ==
    /\ pc = "start"
    /\ browser' = "open"
    /\ pc' = "launched"
    /\ calls' = Append(calls, Call("launch", 0, ""))
    /\ UNCHANGED results
    /\ UNCHANGED <<cmpVars, extVars>>
    /\ UNCHANGED mainVars

\* chromium.launch rejects: scrapeAllPlans rejects, there is no browser
LaunchFails ==
    /\ pc = "start"
    /\ pc' = "rejected"
    /\ calls' = Append(calls, Call("launchFailed", 0, ""))
    /\ UNCHANGED <<browser, results>>
    /\ UNCHANGED <<cmpVars, extVars>>
    /\ UNCHANGED mainVars

\* browser.newContext resolves
NewContext ==
    /\ pc = "launched"
    /\ pc' = "context"
    /\ calls' = Append(calls, Call("newContext", 0, ""))
    /\ UNCHANGED <<browser, results>>
    /\ UNCHANGED <<cmpVars, extVars>>
    /\ UNCHANGED mainVars

\* browser.newContext rejects before the try block is entered
NewContextFails ==
    /\ pc = "launched"
    /\ pc' = "rejected"
    /\ calls' = Append(calls, Call("newContextFailed", 0, ""))
    /\ UNCHANGED <<browser, results>>
    /\ UNCHANGED <<cmpVars, extVars>>
    /\ UNCHANGED mainVars

\* context.newPage resolves, the loop over FLOOR_PLANS starts
NewPage ==
    /\ pc = "context"
    /\ pc' = "scraping"
    /\ results' = <<>>
    /\ calls' = Append(calls, Call("newPage", 0, ""))
    /\ UNCHANGED browser
    /\ UNCHANGED <<cmpVars, extVars>>
    /\ UNCHANGED mainVars

\* context.newPage rejects before the try block is entered
NewPageFails ==
    /\ pc = "context"
    /\ pc' = "rejected"
    /\ calls' = Append(calls, Call("newPageFailed", 0, ""))
    /\ UNCHANGED <<browser, results>>
    /\ UNCHANGED <<cmpVars, extVars>>
    /\ UNCHANGED mainVars

\* scrapePlan for the next tracked page, the page loads
ScrapePlanLoaded ==
    /\ pc = "scraping"
    /\ Len(results) < Len(FLOOR_PLANS)
    /\ LET i == Len(results) + 1
       IN  \E page \in PagesOf(revision) :
              /\ results' = Append(results, loadedSnapshot(revision, FLOOR_PLANS[i], page))
              /\ calls' = calls \o <<Call("goto", i, ""), Call("extractUnits", i, "")>>
    /\ UNCHANGED <<pc, browser>>
    /\ UNCHANGED <<cmpVars, extVars>>
    /\ UNCHANGED mainVars

\* scrapePlan for the next tracked page, the page loads and the element
\* query of extractUnits rejects
ScrapePlanQueryRejected ==
    /\ pc = "scraping"
    /\ Len(results) < Len(FLOOR_PLANS)
    /\ LET i == Len(results) + 1
       IN  \E page \in PagesOf(revision), message \in ExtractionErrors :
              /\ results' = Append(results,
                                   extractionErrorSnapshot(revision, FLOOR_PLANS[i], page, message))
              /\ calls' = calls \o <<Call("goto", i, ""),
                                     Call("extractUnits", i,
                                          IF revision = "rows" THEN "rejected" ELSE "caught")>>
    /\ UNCHANGED <<pc, browser>>
    /\ UNCHANGED <<cmpVars, extVars>>
    /\ UNCHANGED mainVars

\* scrapePlan for the next tracked page, the page loads and reading one of
\* its elements throws inside the loop of extractUnits
ScrapePlanElementSkipped ==
    /\ pc = "scraping"
    /\ Len(results) < Len(FLOOR_PLANS)
    /\ LET i == Len(results) + 1
       IN  \E page \in PagesOf(revision) :
              \E k \in 1..Len(page.elements) :
                 /\ results' = Append(results,
                                      loadedSnapshot(revision, FLOOR_PLANS[i],
                                                     withoutElement(page, k)))
                 /\ calls' = calls \o <<Call("goto", i, ""),
                                        Call("extractUnits", i, "elementSkipped")>>
    /\ UNCHANGED <<pc, browser>>
    /\ UNCHANGED <<cmpVars, extVars>>
    /\ UNCHANGED mainVars

\* scrapePlan for the next tracked page, the rendering of the page fails:
\* page.goto rejects, or it resolves and page.waitForTimeout rejects; the
\* catch block returns the failed snapshot and extractUnits is not reached
ScrapePlanFailed ==
    /\ pc = "scraping"
    /\ Len(results) < Len(FLOOR_PLANS)
    /\ LET i == Len(results) + 1
       IN  \E message \in LoadErrors \cup WaitErrors :
              /\ results' = Append(results, failedSnapshot(FLOOR_PLANS[i], message))
              /\ calls' = IF message \in LoadErrors
                          THEN Append(calls, Call("gotoFailed", i, message))
                          ELSE calls \o <<Call("goto", i, ""),
                                          Call("waitFailed", i, message)>>
    /\ UNCHANGED <<pc, browser>>
    /\ UNCHANGED <<cmpVars, extVars>>
    /\ UNCHANGED mainVars

\* the loop is over and browser.close rejects in the finally block: the
\* rejection leaves scrapeAllPlans, which returns nothing
CloseFails ==
    /\ pc = "scraping"
    /\ Len(results) = Len(FLOOR_PLANS)
    /\ browser' \in CloseFailureStates
    /\ calls' = Append(calls, Call("closeFailed", 0, ""))
    /\ pc' = "rejected"
    /\ UNCHANGED results
    /\ UNCHANGED <<cmpVars, extVars>>
    /\ UNCHANGED mainVars

\* the loop is over: the finally block closes the browser and
\* scrapeAllPlans returns the snapshot
CloseAndReturn ==
    /\ pc = "scraping"
    /\ Len(results) = Len(FLOOR_PLANS)
    /\ browser' = "closed"
    /\ calls' = Append(calls, Call("close", 0, ""))
    /\ currentData' = scraperResult(1, results)
    /\ pc' = "returned"
    /\ UNCHANGED results
    /\ UNCHANGED <<previousData, report, cpc>>
    /\ UNCHANGED extVars
    /\ UNCHANGED mainVars

----------------------------------------------------------------------------
(* main: scrape, load the history, compare, notify, save *)

\* loadHistory: Maybe(the array), <<>> when it throws
loadHistory(f) ==
    IF f.state = "json" THEN <<f.entries>>
    ELSE IF f.state = "missing" THEN <<(<<>>)>>
    ELSE <<>>

getLastEntry(h) == IF Len(h) = 0 THEN <<>> ELSE <<h[Len(h)]>>

\* report.plans.flatMap(p => p.units)
RECURSIVE flatUnits(_)
flatUnits(plans) ==
    IF plans = <<>> THEN <<>> ELSE Head(plans).units \o flatUnits(Tail(plans))

\* hasUpdates with the comparison against 'removed' left out
hasUpdatesNoRemoved(r) ==
    LET allUnits == flatUnits(r.plans)
    IN  \E i \in 1..Len(allUnits) :
           \/ allUnits[i].status = "new"
           \/ allUnits[i].status = "increased"
           \/ allUnits[i].status = "decreased"

hasUpdates(r) ==
    LET allUnits == flatUnits(r.plans)
    IN  \E i \in 1..Len(allUnits) :
           \/ allUnits[i].status = "new"
           \/ allUnits[i].status = "removed"
           \/ allUnits[i].status = "increased"
           \/ allUnits[i].status = "decreased"

\* values of SEND_MODE in the environment ("": not set)
SendModes == {"", "always", "conditional", "weekly"}

\* process.env.SEND_MODE || 'always'
sendModeOf(env) == IF env = "" THEN "always" ELSE env

\* shouldSendEmail with the final else sending nothing
shouldSendEmailKnownModes(mode, updates) ==
    IF mode = "always" THEN TRUE
    ELSE IF mode = "conditional" THEN updates
    ELSE FALSE

shouldSendEmail(mode, updates) ==
    IF mode = "always" THEN TRUE
    ELSE IF mode = "conditional" THEN updates
    ELSE TRUE

\* Math.abs
Abs(x) == IF IsNum(x) THEN Num(IF x.n < 0 THEN 0 - x.n ELSE x.n) ELSE ToNumber(x)

\* formatChange of the notifier: the badge of one record
formatChange(change) ==
    IF change.status = "decreased"
    THEN [icon |-> "down", text |-> "Decreased by", amount |-> <<Abs(change.difference)>>]
    ELSE IF change.status = "increased"
    THEN [icon |-> "up", text |-> "Increased by", amount |-> <<Abs(change.difference)>>]
    ELSE IF change.status = "new"
    THEN [icon |-> "star", text |-> "New Listing", amount |-> <<>>]
    ELSE [icon |-> "dash", text |-> "No change", amount |-> <<>>]

\* the badges of generateEmailHtml and the status texts of generateEmailText,
\* one per record, plan after plan
generateEmailHtml(r) ==
    LET allUnits == flatUnits(r.plans)
    IN  [i \in 1..Len(allUnits) |-> formatChange(allUnits[i])]

generateEmailText(r) ==
    LET allUnits == flatUnits(r.plans)
    IN  [i \in 1..Len(allUnits) |-> formatChange(allUnits[i]).text]

\* the subject sendReport builds: a fixed title and the report's date
subjectOf(r) == [title |-> "Rent Report", date |-> r.date]

\* the message sendReport passes to resend.emails.send
emailOf(r) ==
    [subject |-> subjectOf(r), html |-> generateEmailHtml(r), text |-> generateEmailText(r)]

\* values of RESEND_API_KEY and RECIPIENT_EMAIL ("": not set)
ApiKeys == {"", "re_123"}
Recipients == {"", "me@example.com"}

\* where main continues after the notification step, had it no try/catch
mainAfterSendUncaught(result) == IF result = "sent" THEN "save" ELSE "catch"

\* where main continues after the notification step: the inner try/catch
\* swallows every error of sendReport
mainAfterSend(result) == "save"

\* JSON.parse(JSON.stringify(history))
jsonHistory(h) == [i \in 1..Len(h) |-> jsonSnapshot(h[i])]

\* the file after writeFile failed: before the file was opened nothing
\* changed; afterwards the file has been truncated and holds at most a
\* prefix of the text
writeFileFailed(f, stage) ==
    IF stage = "beforeOpen" THEN f ELSE HistoryFile("corrupt", <<>>)

WriteFailureStages == {"beforeOpen", "afterOpen"}

\* scrapeAllPlans rejected: the catch block of main exits with code 1
ScraperRejected ==
    /\ mpc = "scrape"
    /\ pc = "rejected"
    /\ exitCode' = <<1>>
    /\ mpc' = "exited"
    /\ UNCHANGED <<file, history, sendMode, reportHasUpdates, sendResult, outbox>>
    /\ UNCHANGED <<cmpVars, extVars, runVars>>
    /\ UNCHANGED runs

\* loadHistory resolves; main compares, prints the summary and decides
\* whether to send
LoadHistory ==
    /\ mpc = "scrape"
    /\ pc = "returned"
    /\ loadHistory(file) # <<>>
    /\ history' = loadHistory(file)[1]
    /\ previousData' = getLastEntry(history')
    /\ report' = <<comparePrices(currentData, previousData')>>
    /\ cpc' = "compared"
    /\ reportHasUpdates' = <<hasUpdates(report'[1])>>
    /\ \E env \in SendModes :
          /\ sendMode' = <<sendModeOf(env)>>
          /\ IF shouldSendEmail(sendModeOf(env), hasUpdates(report'[1]))
             THEN mpc' = "send" /\ sendResult' = "none"
             ELSE mpc' = "save" /\ sendResult' = "skipped"
    /\ calls' = Append(calls, Call("loadHistory", 0, file.state))
    /\ UNCHANGED <<file, outbox, exitCode, currentData>>
    /\ UNCHANGED <<pc, browser, results>>
    /\ UNCHANGED extVars
    /\ UNCHANGED runs

\* loadHistory rethrows: the catch block of main exits with code 1
LoadHistoryFails ==
    /\ mpc = "scrape"
    /\ pc = "returned"
    /\ loadHistory(file) = <<>>
    /\ exitCode' = <<1>>
    /\ mpc' = "exited"
    /\ calls' = Append(calls, Call("loadHistoryFailed", 0, file.state))
    /\ UNCHANGED <<file, history, sendMode, reportHasUpdates, sendResult, outbox>>
    /\ UNCHANGED <<pc, browser, results>>
    /\ UNCHANGED <<cmpVars, extVars>>
    /\ UNCHANGED runs

\* what main does once sendReport has settled with a result
AfterSend(result) ==
    /\ sendResult' = result
    /\ calls' = Append(calls, Call("sendReport", 0, result))
    /\ IF mainAfterSend(result) = "save"
       THEN mpc' = "save" /\ exitCode' = exitCode
       ELSE mpc' = "exited" /\ exitCode' = <<1>>
    /\ UNCHANGED <<file, history, sendMode, reportHasUpdates>>
    /\ UNCHANGED <<pc, browser, results>>
    /\ UNCHANGED <<cmpVars, extVars>>
    /\ UNCHANGED runs

\* sendReport throws before building the message: a variable is not set
SendReportNotConfigured ==
    /\ mpc = "send"
    /\ \E apiKey \in ApiKeys, recipientEmail \in Recipients :
          /\ apiKey = "" \/ recipientEmail = ""
          /\ AfterSend(IF apiKey = "" THEN "noApiKey" ELSE "noRecipient")
    /\ UNCHANGED outbox

\* resend.emails.send resolves
SendReportDelivered ==
    /\ mpc = "send"
    /\ outbox' = Append(outbox, emailOf(report[1]))
    /\ AfterSend("sent")

\* resend.emails.send rejects, sendReport rethrows
SendReportRejected ==
    /\ mpc = "send"
    /\ outbox' = Append(outbox, emailOf(report[1]))
    /\ AfterSend("rejected")

\* history.push(currentData) and saveHistory resolves
SaveHistory ==
    /\ mpc = "save"
    /\ history' = Append(history, currentData)
    /\ file' = HistoryFile("json", jsonHistory(history'))
    /\ calls' = Append(calls, Call("saveHistory", 0, "written"))
    /\ exitCode' = <<0>>
    /\ mpc' = "exited"
    /\ UNCHANGED <<sendMode, reportHasUpdates, sendResult, outbox>>
    /\ UNCHANGED <<pc, browser, results>>
    /\ UNCHANGED <<cmpVars, extVars>>
    /\ UNCHANGED runs

\* history.push(currentData) and saveHistory rejects (mkdir or writeFile):
\* the catch block of main exits with code 1
SaveHistoryFails ==
    /\ mpc = "save"
    /\ history' = Append(history, currentData)
    /\ \E stage \in WriteFailureStages :
          /\ file' = writeFileFailed(file, stage)
          /\ calls' = Append(calls, Call("saveHistory", 0, stage))
    /\ exitCode' = <<1>>
    /\ mpc' = "exited"
    /\ UNCHANGED <<sendMode, reportHasUpdates, sendResult, outbox>>
    /\ UNCHANGED <<pc, browser, results>>
    /\ UNCHANGED <<cmpVars, extVars>>
    /\ UNCHANGED runs

Next ==
    \/ Launch \/ LaunchFails
    \/ NewContext \/ NewContextFails
    \/ NewPage \/ NewPageFails
    \/ ScrapePlanLoaded \/ ScrapePlanFailed
    \/ ScrapePlanQueryRejected \/ ScrapePlanElementSkipped
    \/ CloseAndReturn \/ CloseFails
    \/ ScraperRejected
    \/ LoadHistory \/ LoadHistoryFails
    \/ SendReportNotConfigured \/ SendReportDelivered \/ SendReportRejected
    \/ SaveHistory \/ SaveHistoryFails

Spec == Init /\ [][Next]_vars

----------------------------------------------------------------------------
(* Specification of the reconciler: one call of comparePrices on a bounded *)
(* current snapshot and a bounded stored snapshot (or none).               *)

\* the availability the units of the previous observation were stored with
PreviousAvailabilities == {AvailableNow, TxtFeb20}

\* the same units with their availability replaced
withAvailability(units, availability) ==
    [i \in 1..Len(units) |-> [units[i] EXCEPT !.availability = availability]]

InitCompare ==
    /\ \E us \in SeqsUpTo(CurrentUnits, MaxUnits) :
          currentData = [date |-> 2, plans |-> <<planSnapshot(PlanB, FLOOR_PLANS[1].url, us)>>]
    /\ \/ previousData = <<>>
       \/ \E name \in PlanNames, us \in SeqsUpTo(CurrentUnits, MaxUnits),
             availability \in PreviousAvailabilities :
             previousData =
                <<jsonSnapshot([date |-> 1,
                               plans |-> <<planSnapshot(name, FLOOR_PLANS[1].url,
                                                        withAvailability(us, availability))>>])>>
    /\ report = <<>>
    /\ cpc = "start"
    /\ ExtractionIdle
    /\ ScraperIdle
    /\ MainIdle

Compare ==
    /\ cpc = "start"
    /\ report' = <<comparePrices(currentData, previousData)>>
    /\ cpc' = "compared"
    /\ UNCHANGED <<currentData, previousData>>
    /\ UNCHANGED extVars
    /\ UNCHANGED runVars
    /\ UNCHANGED mainVars

NextCompare == Compare

SpecCompare == InitCompare /\ [][NextCompare]_vars

----------------------------------------------------------------------------
(* Properties of the reconciler *)

\* the identity key as the specification defines it
identityKey(u) == OrUnknown(u.unitNumber) \o <<"-">> \o OrUnknown(u.floor)

Compared == cpc = "compared"

\* the units of the previous plan with the name of current plan i
prevUnitsFor(i) ==
    LET pp == previousPlanOf(currentData.plans[i].name, previousData)
    IN  IF pp = <<>> THEN <<>> ELSE pp[1].units

curUnitsFor(i) == currentData.plans[i].units
recordsFor(i) == report[1].plans[i].units
KeysOf(units) == {identityKey(units[j]) : j \in 1..Len(units)}

\* the previous unit a current unit is compared with: the last one of its key
lastPrevWithKey(i, key) ==
    LET pu == prevUnitsFor(i)
    IN  pu[CHOOSE j \in 1..Len(pu) :
              /\ identityKey(pu[j]) = key
              /\ \A m \in 1..Len(pu) : identityKey(pu[m]) = key => m <= j]

\* the previous units without a current counterpart, in previous order
goneFor(i) ==
    LET gone(u) == identityKey(u) \notin KeysOf(curUnitsFor(i))
    IN  SelectSeq(prevUnitsFor(i), gone)

\* C1: every unit is accounted for exactly once.  Record j of a plan report
\* belongs to current unit j and is new exactly when the unit's key is absent
\* from the previous plan, otherwise a matched record (never removed); the
\* records after the current units are exactly one removed record per
\* previous unit whose key no current unit has; and a matched unit whose two
\* numeric prices differ is one increased/decreased record, with no removed
\* record of its key.
C1_EveryUnitOnce ==
    Compared =>
        \A i \in 1..Len(currentData.plans) :
            LET cu == curUnitsFor(i)
                recs == recordsFor(i)
                gone == goneFor(i)
            IN  /\ Len(recs) = Len(cu) + Len(gone)
                /\ \A j \in 1..Len(cu) :
                      /\ recs[j].unitNumber = cu[j].unitNumber
                      /\ recs[j].floor = cu[j].floor
                      /\ recs[j].currentPrice = cu[j].price
                      /\ recs[j].status # "removed"
                      /\ recs[j].status = "new"
                            <=> identityKey(cu[j]) \notin KeysOf(prevUnitsFor(i))
                      /\ identityKey(cu[j]) \in KeysOf(prevUnitsFor(i)) =>
                            LET pv == lastPrevWithKey(i, identityKey(cu[j])).price
                            IN  /\ recs[j].previousPrice = pv
                                /\ (IsNum(pv) /\ IsNum(cu[j].price)
                                      /\ pv.n # cu[j].price.n)
                                   => recs[j].status =
                                        IF cu[j].price.n < pv.n THEN "decreased"
                                        ELSE "increased"
                /\ \A m \in 1..Len(gone) :
                      LET r == recs[Len(cu) + m]
                      IN  /\ r.status = "removed"
                          /\ r.unitNumber = gone[m].unitNumber
                          /\ r.floor = gone[m].floor
                          /\ r.previousPrice = gone[m].price
                          /\ identityKey(gone[m]) \notin KeysOf(cu)

\* Scenario A next to a removal: unit 201 went from 5000 to 4900 (one
\* decreased record, difference -100) and another previous unit is gone
C1_Witness ==
    /\ Compared
    /\ \E j, m \in 1..Len(recordsFor(1)) :
          /\ recordsFor(1)[j].status = "decreased"
          /\ recordsFor(1)[j].difference = Num(0 - 100)
          /\ recordsFor(1)[j].unitNumber = Unit201
          /\ recordsFor(1)[m].status = "removed"
    /\ Len(recordsFor(1)) = 2

\* C2: removed iff currentPrice is absent and a previous unit existed for the
\* key; new iff previousPrice is absent and a current unit exists; without a
\* previous plan every current unit is new with previousPrice absent.
C2_RemovedNewIff ==
    Compared =>
        \A i \in 1..Len(currentData.plans) :
            LET cu == curUnitsFor(i)
                recs == recordsFor(i)
            IN  /\ \A j \in 1..Len(recs) :
                      /\ recs[j].status = "removed"
                            <=> /\ recs[j].currentPrice = Null
                                /\ identityKey(recs[j]) \in KeysOf(prevUnitsFor(i))
                      /\ recs[j].status = "new"
                            <=> /\ recs[j].previousPrice = Null
                                /\ j <= Len(cu)
                /\ prevUnitsFor(i) = <<>> =>
                      /\ Len(recs) = Len(cu)
                      /\ \A j \in 1..Len(recs) :
                            recs[j].status = "new" /\ recs[j].previousPrice = Null

Statuses == {"new", "increased", "decreased", "unchanged", "removed"}

\* C3: every record has one status of the closed set, and the sign of its
\* difference matches it: increased > 0, decreased < 0, otherwise = 0.
C3_SignMatchesStatus ==
    Compared =>
        \A i \in 1..Len(currentData.plans) :
            \A j \in 1..Len(recordsFor(i)) :
                LET r == recordsFor(i)[j]
                IN  /\ r.status \in Statuses
                    /\ r.status = "increased" => IsNum(r.difference) /\ r.difference.n > 0
                    /\ r.status = "decreased" => IsNum(r.difference) /\ r.difference.n < 0
                    /\ r.status \in {"unchanged", "new", "removed"}
                          => r.difference = Num(0)

\* C4: difference = currentPrice - previousPrice when both prices are
\* present, and 0 when either is absent.
C4_Difference ==
    Compared =>
        \A i \in 1..Len(currentData.plans) :
            \A j \in 1..Len(recordsFor(i)) :
                LET r == recordsFor(i)[j]
                IN  /\ (IsNum(r.currentPrice) /\ IsNum(r.previousPrice))
                          => r.difference = Num(r.currentPrice.n - r.previousPrice.n)
                    /\ (r.currentPrice = Null \/ r.previousPrice = Null)
                          => r.difference = Num(0)

----------------------------------------------------------------------------
(* Properties of the extraction *)

ExtractionDone == epc = "done"

\* the units of the snapshot scrapePlan returned
snapshotUnits == currentData.plans[1].units

\* C5: reconciling a snapshot the scraper produced against itself yields only
\* unchanged records with difference 0.
C5_SelfCompareUnchanged ==
    (ExtractionDone /\ Compared) =>
        \A i \in 1..Len(report[1].plans) :
            \A j \in 1..Len(recordsFor(i)) :
                /\ recordsFor(i)[j].status = "unchanged"
                /\ recordsFor(i)[j].difference = Num(0)

\* C6: the identity keys of the units of a returned snapshot are pairwise
\* distinct, whichever strategy produced the units.
C6_KeysDistinct ==
    ExtractionDone =>
        \A i, j \in 1..Len(snapshotUnits) :
            i # j => identityKey(snapshotUnits[i]) # identityKey(snapshotUnits[j])

\* C7: no unit in the output of a strategy has a price that is not an integer
\* or that lies outside [1000, 20000].
C7_PricesInBand ==
    \A i \in 1..Len(unitsFound) :
        /\ IsNum(unitsFound[i].price)
        /\ unitsFound[i].price.n >= 1000
        /\ unitsFound[i].price.n <= 20000

\* the number of units an invocation added
added(inv) == inv.after - inv.before

\* C8: the strategies run in a fixed order, a later one only when every
\* earlier one returned zero units, and the units all come from one strategy.
C8_FirstNonEmptyWins ==
    /\ Len(ran) <= 2
    /\ Len(ran) >= 1 => ran[1].strategy = "structured" /\ ran[1].before = 0
    /\ Len(ran) = 2 =>
          ran[2].strategy = (IF revision = "rows" THEN "harvest" ELSE "pattern")
    /\ \A k \in 1..Len(ran) : \A m \in 1..(k - 1) : ran[m].after = 0
    /\ Cardinality({k \in 1..Len(ran) : added(ran[k]) > 0}) <= 1
    /\ ExtractionDone =>
          /\ Len(unitsFound) = ran[Len(ran)].after
          /\ Len(ran) = 1 <=> ran[1].after > 0

\* the structured-element query found elements, none gave a unit, and the
\* fallback supplied the units
C8_Witness ==
    /\ ExtractionDone
    /\ Len(queried) > 0
    /\ Len(ran) = 2
    /\ ran[1].after = 0
    /\ Len(unitsFound) > 0

----------------------------------------------------------------------------
(* Properties of a run *)

callsOf(op, i) == {k \in 1..Len(calls) : calls[k].op = op /\ calls[k].plan = i}

\* the calls of a rendering step of tracked page i that rejected
renderFailures(i) == callsOf("gotoFailed", i) \cup callsOf("waitFailed", i)

\* the calls of browser.close, resolved or rejected
closeCalls == callsOf("close", 0) \cup callsOf("closeFailed", 0)

\* C9: a page whose rendering fails (page.goto rejects, or the wait after it)
\* gives the failed snapshot (success false, no units, totalUnits 0, no
\* priceRange, the error message, the configured name) without unit
\* extraction, and a page that rendered has its units extracted; the
\* remaining pages are still scraped: the browser is closed only once every
\* tracked page has its snapshot, whether the close then resolves or
\* rejects, and a result that scrapeAllPlans returns holds one snapshot per
\* tracked page, in the order of the tracked pages.  When browser.close
\* rejects scrapeAllPlans returns no result and nothing is compared.
C9_FailedPageSnapshot ==
    /\ Len(results) <= Len(FLOOR_PLANS)
    /\ \A i \in 1..Len(results) :
          /\ results[i].url = FLOOR_PLANS[i].url
          /\ Cardinality(callsOf("goto", i) \cup callsOf("gotoFailed", i)) = 1
          /\ \A k \in renderFailures(i) :
                /\ results[i].success = FALSE
                /\ results[i].units = <<>>
                /\ results[i].totalUnits = 0
                /\ results[i].priceRange = <<>>
                /\ results[i].error = calls[k].detail
                /\ results[i].error # ""
                /\ results[i].name = FLOOR_PLANS[i].name
                /\ callsOf("extractUnits", i) = {}
          /\ renderFailures(i) = {} => callsOf("extractUnits", i) # {}
    /\ closeCalls # {} =>
          /\ Len(results) = Len(FLOOR_PLANS)
          /\ Cardinality(closeCalls) = 1
          /\ pc \in {"returned", "rejected"}
    /\ pc = "returned" <=> callsOf("close", 0) # {}
    /\ callsOf("closeFailed", 0) # {} => pc = "rejected" /\ cpc = "idle"
    /\ pc = "returned" =>
          /\ Len(currentData.plans) = Len(FLOOR_PLANS)
          /\ \A i \in 1..Len(FLOOR_PLANS) : currentData.plans[i].url = FLOOR_PLANS[i].url
          /\ currentData.plans = results

\* the first page failed to load, the second one was still scraped and gave
\* units, and the returned result holds both snapshots
C9_Witness ==
    /\ pc = "returned"
    /\ callsOf("gotoFailed", 1) # {}
    /\ ~currentData.plans[1].success
    /\ currentData.plans[2].success
    /\ Len(currentData.plans[2].units) > 0

\* C10: once the browser is launched it is closed on every exit path of
\* scrapeAllPlans.
C10_BrowserClosedOnExit ==
    (pc \in {"returned", "rejected"} /\ callsOf("launch", 0) # {}) => browser = "closed"

----------------------------------------------------------------------------
(* Properties of main *)

Exited == mpc = "exited"
SendFailures == {"noApiKey", "noRecipient", "rejected"}
saveCalls == {k \in 1..Len(calls) : calls[k].op = "saveHistory"}
loadFailures == {k \in 1..Len(calls) : calls[k].op = "loadHistoryFailed"}

\* C11: when the notification step fails (API key or recipient not set, or
\* the delivery call throws), main goes on to the save step: the current
\* observation is appended to the history and saveHistory is called; the run
\* exits with code 1 only if that save itself failed, and a save that
\* succeeded left the appended history in the file.
C11_NotificationFailureStillSaves ==
    sendResult \in SendFailures =>
        /\ mpc \in {"save", "exited"}
        /\ Exited =>
              /\ Cardinality(saveCalls) = 1
              /\ Len(history) > 0
              /\ history[Len(history)] = currentData
              /\ \A k \in saveCalls :
                    IF calls[k].detail = "written"
                    THEN /\ exitCode = <<0>>
                         /\ file = HistoryFile("json", jsonHistory(history))
                    ELSE exitCode = <<1>>

\* the delivery call threw and the history was saved all the same
C11_Witness ==
    /\ Exited
    /\ sendResult = "rejected"
    /\ exitCode = <<0>>
    /\ file.state = "json"
    /\ file.entries[Len(file.entries)] = jsonSnapshot(currentData)

\* the stored history as an array: a missing file is the empty history
storedEntries(f) == IF f.state = "missing" THEN <<>> ELSE f.entries

\* C12: the stored history is append-only: every step of a run leaves the
\* history file as it is or replaces it by the same entries followed by the
\* current observation, whatever the outcome of the run (also when writing
\* the file fails).
C12_AppendOnly ==
    [][\/ file' = file
       \/ /\ file.state \in {"missing", "json"}
          /\ file'.state = "json"
          /\ file'.entries = Append(storedEntries(file), jsonSnapshot(currentData))]_vars

\* C13: a run exits with code 1 only after a fault of the persistence layer
\* (the history file exists and cannot be read or parsed, or it cannot be
\* written); a missing file is read as the empty history; in every other
\* case the run reaches the save step.
C13_OnlyPersistenceFaultsAreFatal ==
    /\ exitCode = <<1>> =>
          \/ loadFailures # {}
          \/ \E k \in saveCalls : calls[k].detail \in WriteFailureStages
    /\ (Exited /\ loadFailures = {}) => saveCalls # {}
    /\ \A k \in loadFailures : calls[k].detail \in {"unreadable", "corrupt"}

\* the records of the report main built, as (plan, position) pairs
reportRecords ==
    IF report = <<>> THEN {}
    ELSE UNION {{<<p, i>> : i \in 1..Len(report[1].plans[p].units)} :
                   p \in 1..Len(report[1].plans)}

statusAt(pi) == report[1].plans[pi[1]].units[pi[2]].status

UpdateStatuses == {"new", "increased", "decreased", "removed"}

\* C14: hasUpdates(report) is true exactly when some record of some plan has
\* status new, increased, decreased or removed; all-unchanged and empty
\* reports give false.
C14_HasUpdatesIff ==
    reportHasUpdates # <<>> =>
        (reportHasUpdates[1] <=> \E pi \in reportRecords : statusAt(pi) \in UpdateStatuses)

\* a report whose only updates are removed records
C14_Witness ==
    /\ reportHasUpdates = <<TRUE>>
    /\ \E pi \in reportRecords : statusAt(pi) = "removed"
    /\ \A pi \in reportRecords : statusAt(pi) \in {"removed", "unchanged"}

\* the subject the documentation of the subject lines prescribes
prioritySubject ==
    IF \E pi \in reportRecords : statusAt(pi) = "removed" THEN "Listings Removed"
    ELSE IF \E pi \in reportRecords : statusAt(pi) = "new" THEN "New Listings"
    ELSE IF \E pi \in reportRecords : statusAt(pi) \in {"increased", "decreased"}
    THEN "Price Changes"
    ELSE "No Changes"

\* C15: the subject of every e-mail is selected from the report's statuses
\* with the priority removed > new > price changes > no changes.
C15_SubjectPriority ==
    \A k \in 1..Len(outbox) : outbox[k].subject.title = prioritySubject

\* the records of the report in the order of the e-mail: plan after plan
mailedRecords == flatUnits(report[1].plans)

\* C16: every removed record is shown in the e-mail, HTML and plain text,
\* with a label of its own and never with the label of unchanged records.
C16_RemovedHasOwnLabel ==
    \A k \in 1..Len(outbox) :
        \A i \in 1..Len(mailedRecords) :
            mailedRecords[i].status = "removed" =>
                /\ outbox[k].html[i].text = "Removed"
                /\ outbox[k].text[i] = "Removed"

\* the plans of the previous snapshot main compared against
previousPlans == IF previousData = <<>> THEN <<>> ELSE previousData[1].plans
previousNames == {previousPlans[i].name : i \in 1..Len(previousPlans)}
currentNames == {currentData.plans[i].name : i \in 1..Len(currentData.plans)}

\* the keys of the units of the previous plans called name
previousKeysOf(name) ==
    UNION {{identityKey(previousPlans[i].units[k]) : k \in 1..Len(previousPlans[i].units)} :
              i \in {j \in 1..Len(previousPlans) : previousPlans[j].name = name}}

\* C17: plans are matched by name only and the report has one plan report
\* per plan of the current snapshot, in its order: a plan found only in the
\* current snapshot has all its units reported new, and a plan found only in
\* the previous snapshot gives no plan report and no removed record.
C17_PlansMatchedByName ==
    report # <<>> =>
        /\ Len(report[1].plans) = Len(currentData.plans)
        /\ \A p \in 1..Len(report[1].plans) :
              LET pr == report[1].plans[p]
                  cur == currentData.plans[p]
              IN  /\ pr.planName = cur.name
                  /\ pr.url = cur.url
                  /\ cur.name \notin previousNames =>
                        /\ Len(pr.units) = Len(cur.units)
                        /\ \A i \in 1..Len(pr.units) : pr.units[i].status = "new"
                  /\ \A i \in 1..Len(pr.units) :
                        /\ pr.units[i].status = "removed" =>
                              identityKey(pr.units[i]) \in previousKeysOf(cur.name)
                        /\ (i <= Len(cur.units)
                            /\ identityKey(pr.units[i]) \in previousKeysOf(cur.name)) =>
                              pr.units[i].status # "new"

\* the previous snapshot has a plan with units that the current one lacks,
\* and the current one has a plan with units that the previous one lacks
C17_Witness ==
    /\ report # <<>>
    /\ \E i \in 1..Len(previousPlans) :
          previousPlans[i].name \notin currentNames /\ previousPlans[i].units # <<>>
    /\ \E p \in 1..Len(currentData.plans) :
          /\ currentData.plans[p].name \notin previousNames
          /\ currentData.plans[p].units # <<>>
          /\ \E q \in 1..Len(currentData.plans) :
                currentData.plans[q].name \in previousNames

\* what identifies a record's unit within its list: number, floor and price
unitOfRecord(r) ==
    <<r.unitNumber, r.floor, IF r.status = "removed" THEN r.previousPrice ELSE r.currentPrice>>
unitOfUnit(u) == <<u.unitNumber, u.floor, u.price>>

\* C18: within each plan report the records of the current units come
\* first, in the order of the current unit list, and the removed records
\* follow, in the order of the previous unit list; no removed record comes
\* before a record of a current unit.
C18_CurrentThenRemoved ==
    Compared =>
        \A i \in 1..Len(currentData.plans) :
            LET recs == recordsFor(i)
                isRemoved(r) == r.status = "removed"
                isCurrent(r) == r.status # "removed"
                kept == SelectSeq(recs, isCurrent)
                dropped == SelectSeq(recs, isRemoved)
                cu == curUnitsFor(i)
                gone == goneFor(i)
            IN  /\ \A a \in 1..Len(recs), b \in 1..Len(recs) :
                      (a < b /\ isRemoved(recs[a])) => isRemoved(recs[b])
                /\ [j \in 1..Len(kept) |-> unitOfRecord(kept[j])]
                      = [j \in 1..Len(cu) |-> unitOfUnit(cu[j])]
                /\ [j \in 1..Len(dropped) |-> unitOfRecord(dropped[j])]
                      = [j \in 1..Len(gone) |-> unitOfUnit(gone[j])]

\* a plan report with the record of a current unit followed by two removed
\* records of different previous units
C18_Witness ==
    /\ Compared
    /\ \E i \in 1..Len(currentData.plans) :
          LET recs == recordsFor(i)
          IN  /\ Len(recs) = 3
              /\ recs[1].status # "removed"
              /\ recs[2].status = "removed"
              /\ recs[3].status = "removed"
              /\ recs[2].previousPrice # recs[3].previousPrice

\* a <= b on numbers: false when either side is not a number
AtMost(a, b) == IsNum(a) /\ IsNum(b) /\ a.n <= b.n

\* C19: every snapshot scrapePlan returns has totalUnits equal to the number
\* of its units; with units, priceRange.min <= every price <= priceRange.max
\* and both bounds are the price of some unit; without units, no priceRange.
C19_TotalsAndPriceRange ==
    ExtractionDone =>
        \A p \in 1..Len(currentData.plans) :
            LET snap == currentData.plans[p]
            IN  /\ snap.totalUnits = Len(snap.units)
                /\ snap.units = <<>> => snap.priceRange = <<>>
                /\ snap.units # <<>> =>
                      /\ snap.priceRange # <<>>
                      /\ \A i \in 1..Len(snap.units) :
                            /\ AtMost(snap.priceRange[1].min, snap.units[i].price)
                            /\ AtMost(snap.units[i].price, snap.priceRange[1].max)
                      /\ \E i \in 1..Len(snap.units) :
                            snap.units[i].price = snap.priceRange[1].min
                      /\ \E i \in 1..Len(snap.units) :
                            snap.units[i].price = snap.priceRange[1].max

\* the currency amounts of a body text that lie inside [1000, 20000]
amountsInBand(tokens) ==
    {i \in 1..Len(tokens) :
        /\ tokens[i].t \in {"price", "pricemo"}
        /\ tokens[i].s # <<>>
        /\ Head(tokens[i].s) = "$"
        /\ LET amount == parseInt(StripChars(tokens[i].s, {"$", ","}))
           IN  IsNum(amount) /\ amount.n >= MinRent /\ amount.n <= MaxRent}

\* C20: when the page loaded and its text holds a currency amount inside the
\* band, the snapshot has at least one unit, also when the structured and
\* the pattern strategies found nothing.
C20_VisiblePriceGivesUnit ==
    (ExtractionDone /\ bodyText # <<>> /\ amountsInBand(bodyText[1]) # {}) =>
        Len(snapshotUnits) >= 1

\* the price harvest ran and scrapePlan returned its units
HarvestRan == ExtractionDone /\ Len(ran) = 2 /\ ran[2].strategy = "harvest"

\* C21: the price harvest yields one placeholder unit per distinct price:
\* strictly ascending prices (no value twice, also when the page spells one
\* amount in two ways), unit i labelled 'Unit i' from 1, no floor, and
\* availability 'Call for Details'.
C21_HarvestPlaceholders ==
    HarvestRan =>
        /\ \A i \in 1..Len(snapshotUnits) :
              /\ snapshotUnits[i].unitNumber = <<"U", "n", "i", "t", " ">> \o DigitsOf(i)
              /\ snapshotUnits[i].floor = <<>>
              /\ snapshotUnits[i].availability = CallForDetails
        /\ \A i, j \in 1..Len(snapshotUnits) :
              i < j => snapshotUnits[i].price.n < snapshotUnits[j].price.n

\* the number of records of plan report i with a status in the given set
countOf(i, statuses) ==
    Cardinality({j \in 1..Len(recordsFor(i)) : recordsFor(i)[j].status \in statuses})

MatchedStatuses == {"increased", "decreased", "unchanged"}

\* C23 as stated: in every plan report
\* |current.units| + |removed records| - |new records| = |matched-pair records|
C23_ConservationAsStated ==
    Compared =>
        \A i \in 1..Len(currentData.plans) :
            Len(curUnitsFor(i)) + countOf(i, {"removed"}) - countOf(i, {"new"})
                = countOf(i, MatchedStatuses)

\* C23 (amended): in every plan report
\* |current.units| - |new records| = |matched-pair records|, the matched-pair
\* records being those with status increased, decreased or unchanged; the
\* removed records are counted in addition to the current units.
C23_Conservation ==
    Compared =>
        \A i \in 1..Len(currentData.plans) :
            Len(curUnitsFor(i)) - countOf(i, {"new"}) = countOf(i, MatchedStatuses)

\* a plan report with a matched record next to a removed one, where the two
\* identities differ
C23_Witness ==
    /\ Compared
    /\ countOf(1, {"removed"}) >= 1
    /\ countOf(1, MatchedStatuses) >= 1

\* the price texts at the two ends of the band
BoundaryTexts == {Txt1000, Txt20000}

\* C24: every strategy applies the band [1000, 20000] with both ends
\* included: a table row (not a header) whose amount is exactly $1,000 or
\* $20,000 gives a unit of that price in the structured strategy, as an
\* article or card of that price does.
C24_BoundaryPricesKept ==
    (epc = "fallback" /\ revision = "rows") =>
        \A i \in 1..Len(queried) :
            (~isHeaderRow(queried[i]) /\ rowPriceMatch(queried[i]) \in BoundaryTexts) =>
                \E j \in 1..Len(unitsFound) :
                    unitsFound[j].price = parseInt(StripChars(rowPriceMatch(queried[i]), {"$", ","}))

\* main has read SEND_MODE and decided about the notification
Decided == sendMode # <<>>

\* C25: a notification is attempted if and only if SEND_MODE is not
\* 'conditional' (unset, 'always' or an unknown value) or the report has
\* updates; with 'conditional' and no updates sendReport is never called and
\* nothing is sent; in both cases the run goes on to append the current
\* observation to the history and to call saveHistory.
C25_SendDecision ==
    Decided =>
        LET due == sendMode[1] # "conditional" \/ reportHasUpdates[1]
            sends == callsOf("sendReport", 0)
        IN  /\ due <=> (mpc = "send" \/ sends # {})
            /\ ~due => (sendResult = "skipped" /\ outbox = <<>>)
            /\ (due /\ mpc # "send") => Cardinality(sends) = 1
            /\ mpc \in {"send", "save", "exited"}
            /\ Exited =>
                  /\ Cardinality(saveCalls) = 1
                  /\ Len(history) > 0
                  /\ history[Len(history)] = currentData

\* SEND_MODE is 'conditional', the report has no updates, no notification
\* was attempted and the observation is in the stored history
C25_Witness ==
    /\ Exited
    /\ sendMode = <<"conditional">>
    /\ reportHasUpdates = <<FALSE>>
    /\ callsOf("sendReport", 0) = {}
    /\ file.state = "json"
    /\ file.entries[Len(file.entries)] = jsonSnapshot(currentData)

\* C27: the status of a record depends on identity key and price only: a
\* current unit of which the previous plan has a unit with the same key and
\* the same price is unchanged with difference 0, whatever the two
\* availabilities; a plan that differs from the previous one in
\* availabilities only gives a report without updates; and every record of a
\* current unit carries the current availability.
C27_AvailabilityIgnored ==
    Compared =>
        \A i \in 1..Len(currentData.plans) :
            LET cu == curUnitsFor(i)
                pu == prevUnitsFor(i)
            IN  /\ \A j \in 1..Len(cu) :
                      /\ recordsFor(i)[j].availability = cu[j].availability
                      /\ (\E m \in 1..Len(pu) :
                             /\ identityKey(pu[m]) = identityKey(cu[j])
                             /\ pu[m].price = cu[j].price)
                         => /\ recordsFor(i)[j].status = "unchanged"
                            /\ recordsFor(i)[j].difference = Num(0)
                /\ (pu # <<>> /\ withAvailability(pu, <<>>) = withAvailability(cu, <<>>))
                   => ~hasUpdates(report[1])

\* C27 over plans whose identity keys are distinct on both sides
C27_DistinctKeys ==
    (\A i \in 1..Len(currentData.plans) :
        /\ Cardinality(KeysOf(curUnitsFor(i))) = Len(curUnitsFor(i))
        /\ Cardinality(KeysOf(prevUnitsFor(i))) = Len(prevUnitsFor(i)))
    => C27_AvailabilityIgnored

\* C28: in every plan report totalUnits and priceRange are those of the
\* current snapshot: totalUnits is the number of records whose status is not
\* removed, and it is smaller than the length of the report's units list
\* exactly when the plan has removed records.
C28_TotalsFromCurrent ==
    Compared =>
        \A i \in 1..Len(currentData.plans) :
            LET rep == report[1].plans[i]
            IN  /\ rep.totalUnits = currentData.plans[i].totalUnits
                /\ rep.priceRange = currentData.plans[i].priceRange
                /\ rep.totalUnits = Len(rep.units) - countOf(i, {"removed"})
                /\ rep.totalUnits <= Len(rep.units)
                /\ rep.totalUnits < Len(rep.units) <=> countOf(i, {"removed"}) >= 1

\* a removed record whose previous price lies below the priceRange of its
\* plan report
C28_Witness ==
    /\ Compared
    /\ LET rep == report[1].plans[1]
       IN  /\ rep.priceRange # <<>>
           /\ rep.totalUnits < Len(rep.units)
           /\ \E j \in 1..Len(rep.units) :
                 /\ rep.units[j].status = "removed"
                 /\ IsNum(rep.units[j].previousPrice)
                 /\ IsNum(rep.priceRange[1].min)
                 /\ rep.units[j].previousPrice.n < rep.priceRange[1].min.n

\* the outcomes of extractUnits in which its own catch blocks handled an error
CaughtOutcomes == {"caught", "elementSkipped"}

\* C22: a page that loaded and on which no strategy found a unit gives a
\* snapshot with success true, no units, totalUnits 0, no priceRange and no
\* error; an extraction error caught inside extractUnits gives a success
\* snapshot as well (with no units when the catch block around the whole
\* chain caught it), never one with success false.
C22_EmptyExtractionIsSuccess ==
    \A i \in 1..Len(results) :
        \A k \in callsOf("extractUnits", i) :
            /\ (calls[k].detail # "rejected" /\ results[i].units = <<>>) =>
                  /\ results[i].success
                  /\ results[i].totalUnits = 0
                  /\ results[i].priceRange = <<>>
                  /\ results[i].error = ""
            /\ calls[k].detail \in CaughtOutcomes =>
                  /\ results[i].success
                  /\ results[i].error = ""
                  /\ results[i].totalUnits = Len(results[i].units)
            /\ calls[k].detail = "caught" => results[i].units = <<>>

\* the first page lost its units to an error caught in extractUnits, the
\* second loaded and showed nothing a strategy accepts: both are zero-unit
\* success snapshots in the returned result
C22_Witness ==
    /\ pc = "returned"
    /\ Len(results) = 2
    /\ \E k \in callsOf("extractUnits", 1) : calls[k].detail = "caught"
    /\ \E k \in callsOf("extractUnits", 2) : calls[k].detail = ""
    /\ \A i \in 1..2 : results[i].success /\ results[i].units = <<>>

----------------------------------------------------------------------------
(* Runs of main that share data/history.json: each run scrapes, loads the
   history, compares and notifies, then pushes its observation and saves.
   Nothing in main or saveHistory locks the file, so the steps of two runs
   interleave freely; runs that follow one another are one of the
   interleavings. *)

\* the pages of PagesOf the runs are shown: the pages for the harvest of
\* the revision that has one, else the pages with units
RunPagesOf(b) ==
    IF b = "rows" THEN {p \in PagesOf(b) : p.elements = <<>> /\ p.body # <<>>}
    ELSE {p \in PagesOf(b) : (p.elements # <<>> /\ p.body = <<>>) \/ p.heading # <<>>}

\* what one tracked page gave to a run: <<>> when page.goto rejected
RunOutcomes(b) == {<<>>} \cup {<<p>> : p \in RunPagesOf(b)}

\* scrapePlan under that outcome
observedSnapshot(b, plan, outcome) ==
    IF outcome = <<>> THEN failedSnapshot(plan, "Timeout 60000ms exceeded")
    ELSE loadedSnapshot(b, plan, outcome[1])

\* scrapeAllPlans of a run in which both tracked pages had the same outcome
observation(b, day, outcome) ==
    scraperResult(day, <<observedSnapshot(b, FLOOR_PLANS[1], outcome),
                         observedSnapshot(b, FLOOR_PLANS[2], outcome)>>)

InitRuns ==
    /\ revision \in Builds
    /\ queried = <<>>
    /\ bodyText = <<>>
    /\ unitsFound = <<>>
    /\ ran = <<>>
    /\ epc = "idle"
    /\ ReconcilerIdle
    /\ ScraperIdle
    /\ MainIdle

\* scrapeAllPlans resolves in run r; the runs are numbered in the order in
\* which they start, and the number stands for the date of the observation
RunScrape(r) ==
    /\ runs[r].pc = "idle"
    /\ \A q \in Runs : q < r => runs[q].pc # "idle"
    /\ \E outcome \in RunOutcomes(revision) :
          runs' = [runs EXCEPT ![r] = [@ EXCEPT !.pc = "scraped",
                                                !.data = <<observation(revision, r, outcome)>>]]
    /\ UNCHANGED file
    /\ UNCHANGED <<mpc, history, sendMode, reportHasUpdates, sendResult, outbox, exitCode>>
    /\ UNCHANGED <<cmpVars, extVars, runVars>>

\* loadHistory resolves in run r and main compares with the last entry
RunLoad(r) ==
    /\ runs[r].pc = "scraped"
    /\ loadHistory(file) # <<>>
    /\ LET h == loadHistory(file)[1]
       IN  runs' = [runs EXCEPT ![r] =
                       [@ EXCEPT !.pc = "loaded",
                                 !.history = h,
                                 !.report = <<comparePrices(runs[r].data[1],
                                                            getLastEntry(h))>>]]
    /\ UNCHANGED file
    /\ UNCHANGED <<mpc, history, sendMode, reportHasUpdates, sendResult, outbox, exitCode>>
    /\ UNCHANGED <<cmpVars, extVars, runVars>>

\* loadHistory rethrows in run r (the file is there and holds no JSON text,
\* as it does while the writeFile of another run is pending): the catch
\* block of main exits with code 1, nothing is sent and nothing saved
RunLoadFails(r) ==
    /\ runs[r].pc = "scraped"
    /\ loadHistory(file) = <<>>
    /\ runs' = [runs EXCEPT ![r] = [@ EXCEPT !.pc = "exited", !.exit = <<1>>]]
    /\ UNCHANGED file
    /\ UNCHANGED <<mpc, history, sendMode, reportHasUpdates, sendResult, outbox, exitCode>>
    /\ UNCHANGED <<cmpVars, extVars, runVars>>

\* how the notification step of a run ends: not taken, the message
\* delivered, or sendReport throwing
SendResults == {"skipped", "sent"} \cup SendFailures

\* the notification step of run r: when main decides to send and the
\* variables are set, sendReport hands the message to the delivery service;
\* the inner try/catch swallows its errors and main goes on to save
RunSendReport(r) ==
    /\ runs[r].pc = "loaded"
    /\ \E env \in SendModes, result \in SendResults :
          /\ result = "skipped" <=>
                 ~shouldSendEmail(sendModeOf(env), hasUpdates(runs[r].report[1]))
          /\ outbox' = IF result \in {"sent", "rejected"}
                       THEN Append(outbox, emailOf(runs[r].report[1]))
                       ELSE outbox
          /\ mainAfterSend(result) = "save"
    /\ runs' = [runs EXCEPT ![r] = [@ EXCEPT !.pc = "notified"]]
    /\ UNCHANGED file
    /\ UNCHANGED <<mpc, history, sendMode, reportHasUpdates, sendResult, exitCode>>
    /\ UNCHANGED <<cmpVars, extVars, runVars>>

\* history.push(currentData), then saveHistory: writeFile opens the file,
\* which empties it; nothing locks the file
RunOpenFile(r) ==
    /\ runs[r].pc = "notified"
    /\ file' = HistoryFile("empty", <<>>)
    /\ runs' = [runs EXCEPT ![r] = [@ EXCEPT !.pc = "writing",
                                             !.history = Append(@, runs[r].data[1])]]
    /\ UNCHANGED <<mpc, history, sendMode, reportHasUpdates, sendResult, outbox, exitCode>>
    /\ UNCHANGED <<cmpVars, extVars, runVars>>

\* the file after a text is written from its start: over an empty file it
\* holds the text; over the text another writer has put there since the
\* file was opened it holds the new text followed by what is left of a
\* longer old one, which is not JSON text
writtenOver(f, entries) ==
    IF f.state = "empty" THEN {HistoryFile("json", entries)}
    ELSE {HistoryFile("json", entries), HistoryFile("corrupt", <<>>)}

\* writeFile of run r writes the text of its array; saveHistory resolves and
\* the run ends with code 0
RunWriteFile(r) ==
    /\ runs[r].pc = "writing"
    /\ \E f \in writtenOver(file, jsonHistory(runs[r].history)) : file' = f
    /\ runs' = [runs EXCEPT ![r] = [@ EXCEPT !.pc = "done", !.exit = <<0>>]]
    /\ UNCHANGED <<mpc, history, sendMode, reportHasUpdates, sendResult, outbox, exitCode>>
    /\ UNCHANGED <<cmpVars, extVars, runVars>>

NextRuns ==
    \/ \E r \in Runs : RunScrape(r)
    \/ \E r \in Runs : RunLoad(r)
    \/ \E r \in Runs : RunLoadFails(r)
    \/ \E r \in Runs : RunSendReport(r)
    \/ \E r \in Runs : RunOpenFile(r)
    \/ \E r \in Runs : RunWriteFile(r)

SpecRuns == InitRuns /\ [][NextRuns]_vars

----------------------------------------------------------------------------
(* Claims about runs sharing the history file *)

\* the observation of run r as saveHistory writes it
storedObservation(r) == jsonSnapshot(runs[r].data[1])

\* every run has ended: it has saved, or it has exited before saving
AllRunsEnded == \A r \in Runs : runs[r].pc \in {"done", "exited"}

\* C30: when the runs overlap in time, the stored history after all of them
\* have ended holds the observation of every run that has completed (load,
\* compare, notify, save): no completed run's observation is lost to the
\* save of another run.
C30_NoObservationLost ==
    AllRunsEnded =>
        \A r \in Runs :
            runs[r].pc = "done" =>
                \E k \in 1..Len(file.entries) : file.entries[k] = storedObservation(r)

\* run r has loaded the history and compared
RunCompared(r) == runs[r].pc \in {"loaded", "notified", "writing", "done"}

\* the entry run r compared with: Maybe(last entry of the history it loaded)
comparedWith(r) ==
    LET h == runs[r].history
        n == IF runs[r].pc \in {"writing", "done"} THEN Len(h) - 1 ELSE Len(h)
    IN  IF n = 0 THEN <<>> ELSE <<h[n]>>

\* the records of run r's report for tracked page i
runRecords(r, i) == runs[r].report[1].plans[i].units

\* what C26 says of run r, which compared with a previous entry
failureLooksLikeRemoval(r) ==
    \A i \in 1..Len(FLOOR_PLANS) :
        LET cur == runs[r].data[1].plans[i]
            prev == comparedWith(r)[1].plans[i]
            recs == runRecords(r, i)
        IN  /\ ~cur.success =>
                  /\ Len(recs) = Len(prev.units)
                  /\ \A j \in 1..Len(recs) : recs[j].status = "removed"
                  /\ cur.units = <<>>
                  /\ runs[r].pc \in {"writing", "done"} =>
                        runs[r].history[Len(runs[r].history)] = runs[r].data[1]
            /\ ~prev.success =>
                  /\ Len(recs) = Len(cur.units)
                  /\ \A j \in 1..Len(recs) :
                        /\ recs[j].status = "new"
                        /\ recs[j].previousPrice = Null

\* C26: a page-load failure looks like all units disappearing.  If the
\* previous run stored n units for a tracked page and the page fails in this
\* run, the report has exactly n records for it, all removed, and the run
\* appends the empty failed snapshot; if the previous run's snapshot of the
\* page is a failed one, every unit observed now is reported new with no
\* previous price, never increased or decreased.
C26_FailureLooksLikeRemoval ==
    \A r \in Runs :
        (RunCompared(r) /\ comparedWith(r) # <<>>) => failureLooksLikeRemoval(r)

\* C26 over runs whose previous entry holds every tracked page under the
\* name of the tracked-page list
C26_SameName ==
    \A r \in Runs :
        (/\ RunCompared(r)
         /\ comparedWith(r) # <<>>
         /\ \A i \in 1..Len(FLOOR_PLANS) :
               comparedWith(r)[1].plans[i].name = FLOOR_PLANS[i].name)
        => failureLooksLikeRemoval(r)

\* a unit list as the price harvest builds it: 'Unit 1', 'Unit 2', ... with
\* no floor and availability 'Call for Details'
IsHarvested(units) ==
    /\ units # <<>>
    /\ \A j \in 1..Len(units) :
          /\ units[j].unitNumber = <<"U", "n", "i", "t", " ">> \o DigitsOf(j)
          /\ units[j].floor = <<>>
          /\ units[j].availability = CallForDetails

\* the previous plan run r matched with its i-th snapshot, as a Maybe
matchedPlan(r, i) == previousPlanOf(runs[r].data[1].plans[i].name, comparedWith(r))

\* both snapshots of plan i in run r are price harvests
BothHarvested(r, i) ==
    /\ RunCompared(r)
    /\ matchedPlan(r, i) # <<>>
    /\ IsHarvested(runs[r].data[1].plans[i].units)
    /\ IsHarvested(matchedPlan(r, i)[1].units)

\* C29: when the previous and the current snapshot of a plan both come from
\* the price harvest, the units are matched by their rank in the ascending
\* price order: the record of rank j is new exactly when j is above the
\* previous count, otherwise it compares the two prices of rank j; the
\* removed records are those of the previous ranks above the current count;
\* with equal counts no record is new or removed.
C29_HarvestMatchedByRank ==
    \A r \in Runs : \A i \in 1..Len(FLOOR_PLANS) :
        BothHarvested(r, i) =>
            LET cu == runs[r].data[1].plans[i].units
                pu == matchedPlan(r, i)[1].units
                recs == runRecords(r, i)
            IN  /\ \A j \in 1..(Len(cu) - 1) : cu[j].price.n <= cu[j + 1].price.n
                /\ Len(recs) = IF Len(pu) > Len(cu) THEN Len(pu) ELSE Len(cu)
                /\ \A j \in 1..Len(cu) :
                      /\ recs[j].currentPrice = cu[j].price
                      /\ recs[j].status = "new" <=> j > Len(pu)
                      /\ j <= Len(pu) =>
                            /\ recs[j].previousPrice = pu[j].price
                            /\ recs[j].status =
                                  IF cu[j].price.n > pu[j].price.n THEN "increased"
                                  ELSE IF cu[j].price.n < pu[j].price.n THEN "decreased"
                                  ELSE "unchanged"
                /\ \A j \in (Len(cu) + 1)..Len(recs) :
                      /\ recs[j].status = "removed"
                      /\ recs[j].previousPrice = pu[j].price
                /\ Len(cu) = Len(pu) =>
                      \A j \in 1..Len(recs) : recs[j].status \notin {"new", "removed"}

\* the harvest found one price in both runs, 5411 then 4900: the change is
\* one decreased record
C29_Witness ==
    \E r \in Runs :
        /\ BothHarvested(r, 1)
        /\ Len(runRecords(r, 1)) = 1
        /\ runRecords(r, 1)[1].status = "decreased"
        /\ runRecords(r, 1)[1].previousPrice = Num(5411)
        /\ runRecords(r, 1)[1].currentPrice = Num(4900)

====
